---- MODULE Spec2Model ----
(***************************************************************************)
(* A model of the pixi-abm river simulation: the simulation clock          *)
(* (simulation/SimulationControl.ts and its earlier variant), the          *)
(* per-frame tick callbacks (SimulationManager, HyacinthSprite,            *)
(* FishSprite), the population manager (AgentScene) and the fish           *)
(* death-rate curve.                                                       *)
(*                                                                         *)
(* Specifications.                                                         *)
(*   Spec         the whole program: ticker frames, renders, UI commands   *)
(*   SpecLineage  one plant lineage followed until it reproduces           *)
(*   SpecClock    the clock module driven through its exports              *)
(*   SpecEarly    the earlier variant of the clock module                  *)
(*   SpecCurve    the fish death-rate curve on a grid of oxygen levels     *)
(*   SpecRiver    the pollution slider, plants, fish and the oxygen effect *)
(*   SpecSetters  the river setters called with values in and out of range *)
(*   SpecSetup    the placement loops of bulk setup on a small screen      *)
(*   SpecSpace    plant reproduction among plants with positions           *)
(*   SpecFish     fish, their reproduction and the bulk rate update        *)
(*   SpecTwins    two fish that differ only in touchingHyacinth            *)
(*   SpecSwim     the movement step of one fish along a line               *)
(*   SpecCadence  the consumption cadence under frames of varied length    *)
(*   SpecBudget   one lineage with a render after every frame              *)
(*   SpecMature   a plant one growth step below MAX_BIOMASS                *)
(*   SpecCounter  the AgentScene variant with an id counter in React state *)
(*   SpecRiverModule  createRiver, getRiver, updateRiver and resetRiver     *)
(*                                                                         *)
(* React.  hyacinths and fish hold the committed state with every queued   *)
(* update applied; rendered holds the props and closures of the last       *)
(* render.  Updater calls act on the committed state, value sets           *)
(* ([...hyacinths, x]) on the rendered one.  The ticker's frames and       *)
(* React's renders are scheduled independently, so Render may or may not   *)
(* happen between two frames.                                              *)
(*                                                                         *)
(* Units.  JavaScript numbers are modelled as integers on fixed grids:     *)
(*   speedMultiplier        tenths            (1.0  -> 10, 20.0 -> 200)    *)
(*   deltaTime              whole frames                                   *)
(*   globalTime, cadences   1/600 s  (deltaTime * speedMultiplier / 60 s   *)
(*                          = deltaTime * tenths / 600 s)                  *)
(*   biomass                1e-5 kg           (0.5 -> 50000)               *)
(*   nutrients, nur         1e-3 kg;  pollution, pol  1e-2 %               *)
(*   dissolved oxygen       1e-3 mg/L         (6.0  -> 6000)               *)
(*   death rate             1/2000000000      (1.0  -> 2000000000)         *)
(*   reproduceRate          percent           (0.05 -> 5)                  *)
(*   sunlight               tenths            (0.8  -> 8)                  *)
(*   positions (SpecSetup)  whole cells of the screen                      *)
(*   positions (SpecSwim)   1e-4 px;  velocities  1e-3 px per frame;       *)
(*                          deltaTime  tenths of a frame                   *)
(***************************************************************************)
EXTENDS Integers, Sequences, FiniteSets, TLC

VARIABLES
  simulationState,       \* SimulationControl.ts: the singleton clock record
  stateChangeListeners,  \* SimulationControl.ts: array of registered listeners
  seen,                  \* per listener: the clock snapshot it last read
  unsubs,                \* listeners for which an unsubscribe closure exists
  hyacinths,             \* AgentScene: the hyacinths state, queued updates applied
  fish,                  \* AgentScene: the fish state, queued updates applied
  rendered,              \* the last render: the props and closures in use
  riverInstance,         \* River: the singleton (App's river state follows it)
  managerRef,            \* SimulationManager: lastNutrientUpdateRef
  spriteRefs,            \* per mounted sprite: its cadence accumulators
  nextId,                \* uuidv4: ids given out so far + 1
  frameCount,            \* running frames of the ticker since construction
  frame,                 \* the ticker: which tick callback runs next
  placement,             \* bulk setup: the placement loop and the positions
  sweep,                 \* plant reproduction in space: one sweep of growth ticks
  twins,                 \* two fish that differ only in touchingHyacinth
  swim,                  \* fish movement: one fish swimming along a line
  counterScene,          \* the AgentScene variant that numbers agents by a counter
  riverModule,           \* River: the module driven through its four exports
  probeDO,               \* death-rate curve: a pair of oxygen readings
  probeRate,             \* death-rate curve: the rates computed for them
  lastOp,                \* history: the operation that produced this state
  lastArg,               \* history: its numeric argument (speed or deltaTime)
  wasRunning,            \* history: isSimulationRunning() before lastOp
  pendingRate,           \* history: the bulk rate requested since the last render
  births                 \* history: per plant id, its reproduction commits so far

clockVars == <<simulationState, stateChangeListeners, seen, unsubs>>
histVars == <<lastOp, lastArg, wasRunning, pendingRate, births>>
popVars ==
  <<hyacinths, fish, rendered, riverInstance, managerRef, spriteRefs, nextId,
    frameCount, frame>>
probeVars == <<probeDO, probeRate, placement, sweep, twins, swim, counterScene,
              riverModule>>
vars == <<simulationState, stateChangeListeners, seen, unsubs, hyacinths, fish,
          rendered, riverInstance, managerRef, spriteRefs, nextId, frameCount,
          frame,
          probeDO, probeRate, placement, sweep, twins, swim, lastOp, lastArg,
          wasRunning,
          pendingRate, births>>

\* ---------------------------------------------------------------- bounds
MaxTicks == 3          \* running advances per behaviour
MaxRegistrations == 2  \* length of stateChangeListeners
MaxFrames == 2         \* Spec: running frames of the ticker
MaxAgents == 2         \* Spec: agent ids given out
MaxGrowthFrames == 9   \* SpecLineage: running frames of the ticker
MaxLineage == 3        \* SpecLineage: plant ids given out
MaxRiverFrames == 1    \* SpecRiver: running frames of the ticker
MaxRiverAgents == 2    \* SpecRiver: agent ids given out
MaxSetterFrames == 2   \* SpecSetters: running frames of the ticker
MaxSetterAgents == 1   \* SpecSetters: plant ids given out
MaxSetups == 1         \* SpecSetup: runs of handleSetup
MaxSweeps == 1         \* SpecSpace: sweeps of growth ticks, a render after each
MaxFishFrames == 2     \* SpecFish: frames per behaviour
MaxFishAgents == 2     \* SpecFish: fish ever created
MaxSwimSteps == 3      \* SpecSwim: movement steps of the fish
MaxTwinSteps == 3      \* SpecTwins: frames of the two runs
MaxCadenceFrames == 4   \* SpecCadence: frames per behaviour
MaxBudgetFrames == 17  \* SpecBudget: running frames of the ticker
MaxMatureFrames == 3  \* SpecMature: running frames of the ticker
MaxMatureAgents == 3  \* SpecMature: plant ids given out
MaxCounterRequests == 4  \* SpecCounter: add and reproduction requests
MaxRiverCalls == 4  \* SpecRiverModule: calls of the exports
MaxCadenceAgents == 1   \* SpecCadence: plants ever created

\* ------------------------------------------------------- program constants
MinSpeed == 1          \* 0.1
MaxSpeed == 200        \* 20.0
InitialSpeed == 10     \* 1.0
TimeUnit == 600        \* one second of globalTime, in 1/600 s

Min(a, b) == IF a < b THEN a ELSE b
Max(a, b) == IF a > b THEN a ELSE b

SpeedInputs == {0 - 10, 0, 10, 200, 250}
DeltaInputs == {1, 3}
FrameDeltas == {60}            \* ticker.deltaTime: a second of frames
ThresholdInputs == {60000, 99999}  \* 0.6 + Math.random() * 0.4
FutureInputs == {1, 2}         \* Math.floor(Math.random() * 3) + 1
NurInputs == {50}              \* 0.01 + Math.random() * 0.04
PolInputs == {5}               \* 0.05 + Math.random() * 0.04
RollInputs == {1, 100}         \* Math.floor(Math.random() * 100) + 1
FishRateInputs == {5}          \* reproduceRate, in percent
SetupCounts == {<<1, 0>>, <<1, 1>>}  \* handleSetup: <<hyacinthCount, fishCount>>
ListenerIds == {1, 2}          \* two listener functions (App, DayDisplay)

\* ------------------------------------------------------------ the clock
isSimulationRunning(s) == s.isPlaying /\ ~s.isPaused

initialSimulationState ==
  [isPlaying |-> FALSE, isPaused |-> TRUE, globalTime |-> 0, tickCount |-> 0,
   speedMultiplier |-> InitialSpeed, dayCount |-> 0]

playSimulation(s) == [s EXCEPT !.isPlaying = TRUE, !.isPaused = FALSE]

pauseSimulation(s) == [s EXCEPT !.isPaused = TRUE]

togglePlayPauseMutOnFlag(s) ==
  IF s.isPlaying THEN pauseSimulation(s) ELSE playSimulation(s)
togglePlayPause(s) ==
  IF s.isPlaying /\ ~s.isPaused THEN pauseSimulation(s) ELSE playSimulation(s)

resetSimulationMutResetsSpeed(s) ==
  [s EXCEPT !.isPlaying = FALSE, !.isPaused = TRUE, !.globalTime = 0,
            !.tickCount = 0, !.dayCount = 0, !.speedMultiplier = InitialSpeed]
resetSimulation(s) ==
  [s EXCEPT !.isPlaying = FALSE, !.isPaused = TRUE, !.globalTime = 0,
            !.tickCount = 0, !.dayCount = 0]

\* globalTime += deltaTime * speedMultiplier / 60; dayCount = floor(globalTime)
updateGlobalTimeMutStaleDay(s, deltaTime) ==
  IF s.isPlaying /\ ~s.isPaused
  THEN [s EXCEPT !.globalTime = @ + deltaTime * s.speedMultiplier,
                 !.tickCount = @ + 1,
                 !.dayCount = s.globalTime \div TimeUnit]
  ELSE s
updateGlobalTime(s, deltaTime) ==
  IF s.isPlaying /\ ~s.isPaused
  THEN [s EXCEPT !.globalTime = @ + deltaTime * s.speedMultiplier,
                 !.tickCount = @ + 1,
                 !.dayCount = (s.globalTime + deltaTime * s.speedMultiplier) \div TimeUnit]
  ELSE s

setSpeedMultiplierMutNoFloor(s, speed) ==
  [s EXCEPT !.speedMultiplier = Min(MaxSpeed, speed)]
setSpeedMultiplier(s, speed) ==
  [s EXCEPT !.speedMultiplier = Max(MinSpeed, Min(MaxSpeed, speed))]

\* notifyListeners: every registered listener runs and reads the clock
\* (getSimulationState / getDayCount) as it stands when it is called.
notifyListeners(listeners, s, old) ==
  [l \in ListenerIds |->
     IF \E i \in 1..Len(listeners) : listeners[i] = l THEN s ELSE old[l]]

\* Before the two fish of the shelter comparison are spawned, and before the
\* swimming fish is.
TwinIdle == [phase |-> "idle"]
SwimIdle == [phase |-> "idle"]
CounterIdle == [phase |-> "idle"]
\* let riverInstance: River | null = null: no instance, nothing returned yet
RiverModuleIdle == [riverInstance |-> <<>>, returned |-> <<>>, updates |-> <<>>,
                    calls |-> 0]

\* No bulk update of the fish reproduction rate is waiting for a render.
NoRate == -1

\* The operations that end with React having rendered AgentScene.
RenderOps == {"render", "setNutrients", "setPollution", "setSunlight"}

\* One more reproduction commit of the plant id.
Counted(count, id) ==
  [p \in DOMAIN count \cup {id} |->
     IF p = id THEN (IF id \in DOMAIN count THEN count[id] ELSE 0) + 1
     ELSE count[p]]

Hist(op, arg) == /\ lastOp' = op
                 /\ lastArg' = arg
                 /\ wasRunning' = isSimulationRunning(simulationState)
                 /\ pendingRate' = IF op = "updateAllFish" THEN arg
                                   ELSE IF op \in RenderOps THEN NoRate
                                   ELSE pendingRate
                 /\ births' = IF op = "hyacinthTick" /\ nextId' = nextId + 1
                              THEN Counted(births, rendered.hyacinths[frame.i].id)
                              ELSE births

\* An operation that ends in notifyListeners().
Notifying(op, arg, s) ==
  /\ simulationState' = s
  /\ seen' = notifyListeners(stateChangeListeners, s, seen)
  /\ UNCHANGED <<stateChangeListeners, unsubs>>
  /\ Hist(op, arg)

PlaySimulation == Notifying("play", 0, playSimulation(simulationState))
PauseSimulation == Notifying("pause", 0, pauseSimulation(simulationState))
TogglePlayPause == Notifying("toggle", 0, togglePlayPause(simulationState))
ResetSimulation == Notifying("reset", 0, resetSimulation(simulationState))
SetSpeedMultiplier(speed) ==
  Notifying("setSpeed", speed, setSpeedMultiplier(simulationState, speed))

\* updateGlobalTime notifies only inside its running branch.
UpdateGlobalTime(deltaTime) ==
  /\ isSimulationRunning(simulationState) => simulationState.tickCount < MaxTicks
  /\ IF isSimulationRunning(simulationState)
     THEN Notifying("advance", deltaTime, updateGlobalTime(simulationState, deltaTime))
     ELSE /\ simulationState' = updateGlobalTime(simulationState, deltaTime)
          /\ UNCHANGED <<stateChangeListeners, seen, unsubs>>
          /\ Hist("advance", deltaTime)

\* addStateChangeListener: push, and hand back the unsubscribe closure.  The
\* registering component has just read the clock for its initial state.
AddStateChangeListener(l) ==
  /\ Len(stateChangeListeners) < MaxRegistrations
  /\ stateChangeListeners' = Append(stateChangeListeners, l)
  /\ unsubs' = unsubs \cup {l}
  /\ seen' = [seen EXCEPT ![l] = simulationState]
  /\ UNCHANGED simulationState
  /\ Hist("addListener", 0)

\* the closure returned by addStateChangeListener: filter((x) => x !== l)
unsubscribe(listeners, l) == SelectSeq(listeners, LAMBDA x : x # l)

Unsubscribe(l) ==
  /\ l \in unsubs
  /\ stateChangeListeners' = unsubscribe(stateChangeListeners, l)
  /\ seen' = [seen EXCEPT ![l] = "none"]
  /\ UNCHANGED <<simulationState, unsubs>>
  /\ Hist("unsubscribe", 0)

\* ------------------------------------------------------------ the river
\* River.ts createRiver / resetRiver defaults (flow fields are not modelled).
defaultRiver ==
  [totalNutrients |-> 100000, temperature |-> 30, sunlight |-> 8,
   pollutionLevel |-> 2000, initialDissolvedOxygen |-> 6000,
   currentDissolvedOxygen |-> 6000]

\* App.handleNutrientConsumption / handlePollutionConsumption:
\* updateRiver({x: Math.max(0, getRiver().x - consumed)})
handleNutrientConsumption(river, consumed) ==
  [river EXCEPT !.totalNutrients = Max(0, @ - consumed)]
handlePollutionConsumption(river, consumed) ==
  [river EXCEPT !.pollutionLevel = Max(0, @ - consumed)]

\* ---------------------------------------------------------- sequences
RECURSIVE SumOver(_, _)
SumOver(s, field) ==
  IF s = <<>> THEN 0 ELSE s[1][field] + SumOver(Tail(s), field)

HasId(s, id) == \E i \in 1..Len(s) : s[i].id = id
ById(s, id) == s[CHOOSE i \in 1..Len(s) : s[i].id = id]
IdsOf(s) == {s[i].id : i \in 1..Len(s)}
Without(s, id) == SelectSeq(s, LAMBDA e : e # id)
Includes(s, id) == \E i \in 1..Len(s) : s[i] = id

\* ------------------------------------------------------------ hyacinths
INIT_BIOMASS == 50000     \* 0.5 kg
MAX_BIOMASS == 250000     \* 2.5 kg
CadenceUnit == 600        \* 1.0 s of an accumulator fed deltaTime / 60
NoParent == 0             \* parent: null

Abs(x) == IF x < 0 THEN 0 - x ELSE x

\* tempFactor * sunlight * (nur / 0.05) * 0.1, in 1e-5 kg:
\* (tf/10) * (sun/10) * (nur/50) * 10000 = 2 * tf * sun * nur
calculateGrowthRate(temperature, sunlight, nur) ==
  LET tempFactor == IF temperature >= 25 /\ temperature <= 35
                    THEN 10 - Abs(temperature - 30)
                    ELSE 1
  IN 2 * tempFactor * sunlight * nur

newHyacinthMutParentId(id, parentId, nur, pol, futureDaughters) ==
  [id |-> IF parentId = NoParent THEN id ELSE parentId,
   biomass |-> INIT_BIOMASS, nur |-> nur, pol |-> pol,
   parent |-> parentId, daughters |-> <<>>, currentDaughters |-> 0,
   futureDaughters |-> futureDaughters, biomassGained |-> 0,
   dissolvedOxygenImpact |-> 50]

newHyacinth(id, parentId, nur, pol, futureDaughters) ==
  [id |-> id, biomass |-> INIT_BIOMASS, nur |-> nur, pol |-> pol,
   parent |-> parentId, daughters |-> <<>>, currentDaughters |-> 0,
   futureDaughters |-> futureDaughters, biomassGained |-> 0,
   dissolvedOxygenImpact |-> 50]

handleHyacinthBiomassChange(current, id, newBiomass) ==
  [i \in 1..Len(current) |->
     IF current[i].id = id THEN [current[i] EXCEPT !.biomass = newBiomass]
     ELSE current[i]]

handleHyacinthBiomassGainedChange(current, id, newBiomassGained) ==
  [i \in 1..Len(current) |->
     IF current[i].id = id
     THEN [current[i] EXCEPT !.biomassGained = newBiomassGained]
     ELSE current[i]]

\* the updater of handleHyacinthDeath
handleHyacinthDeathMutKeepsPlant(current, hyacinthId) ==
  [i \in 1..Len(current) |->
     IF current[i].parent = hyacinthId
     THEN [current[i] EXCEPT !.parent = NoParent]
     ELSE current[i]]
handleHyacinthDeathMutKeepsLinks(current, hyacinthId) ==
  SelectSeq(current, LAMBDA h : h.id # hyacinthId)
handleHyacinthDeath(current, hyacinthId) ==
  IF ~HasId(current, hyacinthId) THEN current
  ELSE LET kept == SelectSeq(current, LAMBDA h : h.id # hyacinthId)
       IN [i \in 1..Len(kept) |->
             IF kept[i].parent = hyacinthId
             THEN [kept[i] EXCEPT !.parent = NoParent]
             ELSE IF Includes(kept[i].daughters, hyacinthId)
             THEN [kept[i] EXCEPT
                     !.daughters = Without(@, hyacinthId),
                     !.currentDaughters = Max(0, @ - 1)]
             ELSE kept[i]]

handleHyacinthReproductionMutNoCount(current, parentId, daughter) ==
  IF ~HasId(current, parentId) THEN current
  ELSE Append([i \in 1..Len(current) |->
                 IF current[i].id = parentId
                 THEN [current[i] EXCEPT
                         !.daughters = Append(@, daughter.id),
                         !.biomassGained = 0]
                 ELSE current[i]],
              daughter)

handleHyacinthReproductionMutKeepsGained(current, parentId, daughter) ==
  IF ~HasId(current, parentId) THEN current
  ELSE Append([i \in 1..Len(current) |->
                 IF current[i].id = parentId
                 THEN [current[i] EXCEPT
                         !.daughters = Append(@, daughter.id),
                         !.currentDaughters = @ + 1]
                 ELSE current[i]],
              daughter)

\* the updater of handleHyacinthReproduction; daughter is the record it builds
handleHyacinthReproduction(current, parentId, daughter) ==
  IF ~HasId(current, parentId) THEN current
  ELSE Append([i \in 1..Len(current) |->
                 IF current[i].id = parentId
                 THEN [current[i] EXCEPT
                         !.daughters = Append(@, daughter.id),
                         !.currentDaughters = @ + 1,
                         !.biomassGained = 0]
                 ELSE current[i]],
              daughter)

\* ----------------------------------------------------------------- fish
newFish(id, reproduceRate) == [id |-> id, reproduceRate |-> reproduceRate]

handleFishDeath(current, fishId) == SelectSeq(current, LAMBDA f : f.id # fishId)

DeathScale == 2000000000  \* the death rate 1.0

\* FishSprite's death-rate curve, dissolvedOxygen in 1e-3 mg/L:
\*   <= 0: 1.0;  >= 6: 0;  >= 4: 0.02 * (1 - (DO - 4) / 2);
\*   >= 2: 0.15 * (1 - ((DO - 2) / 2)^2) + 0.02;
\*   >= 1: 0.5 * (1 - (DO - 1)^3) + 0.15;  else 1.0 - 0.5 * DO^2
deathRate(dissolvedOxygen) ==
  IF dissolvedOxygen <= 0 THEN DeathScale
  ELSE IF dissolvedOxygen >= 6000 THEN 0
  ELSE IF dissolvedOxygen >= 4000
       THEN 20000 * (6000 - dissolvedOxygen)
  ELSE IF dissolvedOxygen >= 2000
       THEN 75 * (4000000 - (dissolvedOxygen - 2000) * (dissolvedOxygen - 2000))
            + 40000000
  ELSE IF dissolvedOxygen >= 1000
       THEN (1000000000 - (dissolvedOxygen - 1000) * (dissolvedOxygen - 1000)
                            * (dissolvedOxygen - 1000)) + 300000000
  ELSE DeathScale - 1000 * dissolvedOxygen * dissolvedOxygen

\* The earlier FishSprite's death-rate curve, piecewise linear:
\*   <= 1: 1.0;  <= 1.5: 1.0 - 0.2 n;  <= 2: 0.8 - 0.3 n;  <= 3: 0.5 - 0.3 n;
\*   <= 4: 0.2 - 0.15 n;  <= 5: 0.05 - 0.04 n;  <= 6: 0.01 - 0.01 n;  else 0,
\* n being the position of DO within its band, from 0 to 1.
deathRateLinearMutShortBand(dissolvedOxygen) ==
  IF dissolvedOxygen <= 1000 THEN DeathScale
  ELSE IF dissolvedOxygen <= 2000
       THEN DeathScale - 800000 * (dissolvedOxygen - 1000)
  ELSE IF dissolvedOxygen <= 3000
       THEN 1000000000 - 600000 * (dissolvedOxygen - 2000)
  ELSE 0

deathRateLinear(dissolvedOxygen) ==
  IF dissolvedOxygen <= 1000 THEN DeathScale
  ELSE IF dissolvedOxygen <= 1500
       THEN DeathScale - 800000 * (dissolvedOxygen - 1000)
  ELSE IF dissolvedOxygen <= 2000
       THEN 1600000000 - 1200000 * (dissolvedOxygen - 1500)
  ELSE IF dissolvedOxygen <= 3000
       THEN 1000000000 - 600000 * (dissolvedOxygen - 2000)
  ELSE IF dissolvedOxygen <= 4000
       THEN 400000000 - 300000 * (dissolvedOxygen - 3000)
  ELSE IF dissolvedOxygen <= 5000
       THEN 100000000 - 80000 * (dissolvedOxygen - 4000)
  ELSE IF dissolvedOxygen <= 6000
       THEN 20000000 - 20000 * (dissolvedOxygen - 5000)
  ELSE 0

\* randomValue <= rate * 100, randomValue in 1..100 and rate in 1/scale
RollHitsMutStrict(randomValue, rate, scale) == randomValue * (scale \div 100) < rate
RollHits(randomValue, rate, scale) == randomValue * (scale \div 100) <= rate

\* River.updateRiver: the given fields replace the stored ones; only the two
\* dissolved-oxygen fields are constrained, to [0, 7].
updateRiver(river, updates) ==
  [f \in DOMAIN river |->
     IF f \in DOMAIN updates
     THEN IF f \in {"initialDissolvedOxygen", "currentDissolvedOxygen"}
          THEN Min(7000, Max(0, updates[f]))
          ELSE updates[f]
     ELSE river[f]]

\* createRiverControls: the setters hand their argument to updateRiver as is
handleNutrientsChange(river, nutrients) ==
  updateRiver(river, [totalNutrients |-> nutrients])
handlePollutionChange(river, pollution) ==
  updateRiver(river, [pollutionLevel |-> pollution])
handleSunlightChange(river, sunlight) ==
  updateRiver(river, [sunlight |-> sunlight])

\* AgentScene's effect on [hyacinths, river.initialDissolvedOxygen,
\* river.pollutionLevel]: Math.max(0, initial - sum of impacts - pollution
\* / 100 * 6.0), handed to App.handleCurrentDOChange.  pollutionLevel stays
\* a multiple of 0.05 %, which makes the division exact.
currentDOMutPollutionAdds(hs, river) ==
  Max(0, river.initialDissolvedOxygen - SumOver(hs, "dissolvedOxygenImpact")
         + (river.pollutionLevel * 6) \div 10)
currentDO(hs, river) ==
  Max(0, river.initialDissolvedOxygen - SumOver(hs, "dissolvedOxygenImpact")
         - (river.pollutionLevel * 6) \div 10)

\* updateRiver keeps currentDissolvedOxygen within [0, 7]
handleCurrentDOChange(river, newDO) ==
  [river EXCEPT !.currentDissolvedOxygen = Min(7000, Max(0, newDO))]

\* ---------------------------------------------------- the ticker frame
\* One frame of the ticker runs the useTick callbacks in registration order:
\* SimulationManager, then every mounted HyacinthSprite, then every mounted
\* FishSprite.  Sprites and their props are those of the last render.
Snapshot ==
  [hyacinths |-> hyacinths, fish |-> fish,
   river |-> handleCurrentDOChange(riverInstance, currentDO(hyacinths, riverInstance))]

AfterCallback(pc, i, deltaTime) ==
  IF pc = "manager" /\ Len(rendered.hyacinths) > 0
    THEN [pc |-> "hyacinths", i |-> 1, dt |-> deltaTime]
  ELSE IF pc = "hyacinths" /\ i < Len(rendered.hyacinths)
    THEN [pc |-> "hyacinths", i |-> i + 1, dt |-> deltaTime]
  ELSE IF pc \in {"manager", "hyacinths"} /\ Len(rendered.fish) > 0
    THEN [pc |-> "fish", i |-> 1, dt |-> deltaTime]
  ELSE IF pc = "fish" /\ i < Len(rendered.fish)
    THEN [pc |-> "fish", i |-> i + 1, dt |-> deltaTime]
  ELSE [pc |-> "idle", i |-> 0, dt |-> 0]

\* the early return of each tick callback: if (!isSimulationRunning()) return
managerGate(s) == isSimulationRunning(s)
hyacinthGateMutOpen(s) == TRUE
hyacinthGate(s) == isSimulationRunning(s)
fishGateMutOpen(s) == TRUE
fishGate(s) == isSimulationRunning(s)

\* AgentScene.handleNutrientUpdate: guards read the rendered props, the App
\* handlers subtract from the singleton.
handleNutrientUpdate(props, river) ==
  LET hs == props.hyacinths
      fed == IF Len(hs) > 0 /\ props.river.totalNutrients > 0
                /\ SumOver(hs, "nur") > 0
             THEN handleNutrientConsumption(river, SumOver(hs, "nur"))
             ELSE river
  IN IF Len(hs) > 0 /\ props.river.pollutionLevel > 0 /\ SumOver(hs, "pol") > 0
     THEN handlePollutionConsumption(fed, SumOver(hs, "pol"))
     ELSE fed

\* SimulationManager's useTick callback
ManagerTick(deltaTime) ==
  /\ frame.pc = "idle"
  /\ frameCount' = IF isSimulationRunning(simulationState)
                    THEN frameCount + 1 ELSE frameCount
  /\ LET scaled == deltaTime * simulationState.speedMultiplier
         acc == managerRef + scaled
     IN IF managerGate(simulationState)
        THEN /\ IF isSimulationRunning(simulationState)
                THEN Notifying("managerTick", deltaTime,
                               updateGlobalTime(simulationState, deltaTime))
                ELSE /\ UNCHANGED clockVars
                     /\ Hist("managerTick", deltaTime)
             /\ managerRef' = IF acc >= CadenceUnit THEN 0 ELSE acc
             /\ riverInstance' = IF acc >= CadenceUnit
                                 THEN handleNutrientUpdate(rendered, riverInstance)
                                 ELSE riverInstance
        ELSE /\ UNCHANGED <<clockVars, managerRef, riverInstance>>
             /\ Hist("managerTick", deltaTime)
  /\ frame' = AfterCallback("manager", 0, deltaTime)
  /\ UNCHANGED <<hyacinths, fish, rendered, spriteRefs, nextId, probeVars>>

\* findReproductionSpace: positions are not modelled; the search returns a
\* free candidate or null.
findReproductionSpace == BOOLEAN

\* The death evaluation of the plant sprite (spec 4.2 step 4), on the river
\* the sprite was rendered with: death is unconditional at a lethal
\* pollution level (100 %) or without sunlight; otherwise the background
\* mortality draw can go either way on every tick.
LethalPollution == 10000

DeathEvaluation(river) ==
  IF river.pollutionLevel >= LethalPollution \/ river.sunlight <= 0
  THEN {TRUE} ELSE BOOLEAN

\* HyacinthSprite's useTick callback, for the sprite at frame.i
growthAllowedMutNoStock(hyacinth, river) == hyacinth.biomass < MAX_BIOMASS

\* the condition of the growth branch, on the sprite's props
growthAllowed(hyacinth, river) ==
  hyacinth.biomass < MAX_BIOMASS /\ river.totalNutrients > 0

\* the biomass the growth branch hands to onBiomassChange
growthResult(hyacinth, river) ==
  Min(hyacinth.biomass
        + calculateGrowthRate(river.temperature, river.sunlight, hyacinth.nur),
      MAX_BIOMASS)

HyacinthTick ==
  /\ frame.pc = "hyacinths"
  /\ LET h == rendered.hyacinths[frame.i]
         river == rendered.river
         scaled == frame.dt * simulationState.speedMultiplier
         acc == spriteRefs.growth[h.id] + scaled
         fires == acc >= CadenceUnit
         grows == fires /\ growthAllowed(h, river)
         biomassIncrease == calculateGrowthRate(river.temperature, river.sunlight, h.nur)
         newBiomass == growthResult(h, river)
         newBiomassGained == h.biomassGained + biomassIncrease
         grown == IF grows
                  THEN handleHyacinthBiomassGainedChange(
                         handleHyacinthBiomassChange(hyacinths, h.id, newBiomass),
                         h.id, newBiomassGained)
                  ELSE hyacinths
     IN IF ~hyacinthGate(simulationState)
        THEN UNCHANGED <<hyacinths, spriteRefs, nextId>>
        ELSE \E reproductionThreshold \in ThresholdInputs,
                space \in findReproductionSpace,
                dies \in DeathEvaluation(river),
                nur \in NurInputs, pol \in PolInputs, fd \in FutureInputs :
               LET reproduces ==
                     /\ grows
                     /\ newBiomassGained >= reproductionThreshold
                     /\ h.currentDaughters < h.futureDaughters
                     /\ h.biomass < MAX_BIOMASS
                     /\ space
                   born == reproduces /\ HasId(grown, h.id)
                   bred == IF reproduces
                           THEN handleHyacinthReproduction(
                                  grown, h.id, newHyacinth(nextId, h.id, nur, pol, fd))
                           ELSE grown
               IN /\ hyacinths' = IF dies THEN handleHyacinthDeath(bred, h.id) ELSE bred
                  /\ nextId' = IF born THEN nextId + 1 ELSE nextId
                  /\ spriteRefs' = [spriteRefs EXCEPT
                                      !.growth[h.id] = IF fires THEN 0 ELSE acc]
  /\ frame' = AfterCallback("hyacinths", frame.i, frame.dt)
  /\ Hist("hyacinthTick", frame.dt)
  /\ UNCHANGED <<clockVars, fish, rendered, riverInstance, managerRef, frameCount,
                 probeVars>>

\* AgentScene.handleFishReproduction: the parent is looked up in the rendered
\* fish, the append is an updater on the current state.
handleFishReproduction(current, props, parentId, id) ==
  IF ~HasId(props.fish, parentId) THEN current
  ELSE Append(current, newFish(id, ById(props.fish, parentId).reproduceRate))

reproductionCheckMutNoReturn(died, elapsed, randomValue, reproduceRate) ==
  elapsed >= CadenceUnit /\ RollHits(randomValue, reproduceRate, 100)

\* the reproduction check of FishSprite's tick: not reached after a death
\* (return), due when lastReproductionCheckRef has reached one second
reproductionCheck(died, elapsed, randomValue, reproduceRate) ==
  ~died /\ elapsed >= CadenceUnit /\ RollHits(randomValue, reproduceRate, 100)

\* FishSprite's useTick callback, for the sprite at frame.i.  A death leaves
\* lastDeathCheckRef above the cadence; the ref is only ever compared with
\* the cadence, so it is kept saturated there.
\* The two checks of FishSprite's tick, for the fish of its props: the death
\* check rolls against the death rate of the river's current dissolved oxygen,
\* the reproduction check against fish.reproduceRate.
fishOutcomeMutShelter(f, river, dacc, racc, deathRoll, reproductionRoll) ==
  LET rate == deathRate(river.currentDissolvedOxygen)
      died == /\ dacc >= CadenceUnit
              /\ RollHits(deathRoll, IF f.touchingHyacinth THEN rate \div 2 ELSE rate,
                          DeathScale)
  IN [died |-> died,
      reproduces |-> reproductionCheck(died, racc, reproductionRoll, f.reproduceRate)]

fishOutcome(f, river, dacc, racc, deathRoll, reproductionRoll) ==
  LET died == /\ dacc >= CadenceUnit
              /\ RollHits(deathRoll, deathRate(river.currentDissolvedOxygen),
                          DeathScale)
  IN [died |-> died,
      reproduces |-> reproductionCheck(died, racc, reproductionRoll, f.reproduceRate)]

\* handleFishTouchingHyacinthChange, for one fish: {...fish, touchingHyacinth}.
handleFishTouchingHyacinthChange(f, touching) ==
  [field \in DOMAIN f \cup {"touchingHyacinth"} |->
     IF field = "touchingHyacinth" THEN touching ELSE f[field]]

FishTick ==
  /\ frame.pc = "fish"
  /\ LET f == rendered.fish[frame.i]
         scaled == frame.dt * simulationState.speedMultiplier
         dacc == spriteRefs.death[f.id] + scaled
         racc == spriteRefs.repro[f.id] + scaled
     IN IF ~fishGate(simulationState)
        THEN UNCHANGED <<fish, spriteRefs, nextId>>
        ELSE \E deathRoll \in RollInputs, reproductionRoll \in RollInputs :
               LET outcome == fishOutcome(f, rendered.river, dacc, racc, deathRoll,
                                          reproductionRoll)
                   died == outcome.died
                   reproduces == outcome.reproduces
                   survivors == IF died THEN handleFishDeath(fish, f.id) ELSE fish
               IN /\ fish' = IF reproduces
                             THEN handleFishReproduction(survivors, rendered, f.id, nextId)
                             ELSE survivors
                  /\ nextId' = IF reproduces THEN nextId + 1 ELSE nextId
                  /\ spriteRefs' =
                       IF died
                       THEN [spriteRefs EXCEPT !.death[f.id] = Min(dacc, CadenceUnit)]
                       ELSE [spriteRefs EXCEPT
                               !.death[f.id] = IF dacc >= CadenceUnit THEN 0 ELSE dacc,
                               !.repro[f.id] = IF racc >= CadenceUnit THEN 0 ELSE racc]
  /\ frame' = AfterCallback("fish", frame.i, frame.dt)
  /\ Hist("fishTick", frame.dt)
  /\ UNCHANGED <<clockVars, hyacinths, rendered, riverInstance, managerRef,
                 frameCount, probeVars>>

\* ------------------------------------------------------------- rendering
\* React renders the queued state: props and closures are renewed, sprites of
\* new agents mount with zeroed refs, sprites of removed agents unmount; the
\* dissolved-oxygen effect runs and its river update is rendered in turn.
KeepRefs(old, ids) == [id \in ids |-> IF id \in DOMAIN old THEN old[id] ELSE 0]

RenderMutMidFrame ==
  /\ rendered # Snapshot
  /\ rendered' = Snapshot
  /\ riverInstance' = Snapshot.river
  /\ spriteRefs' = [growth |-> KeepRefs(spriteRefs.growth, IdsOf(hyacinths)),
                    death |-> KeepRefs(spriteRefs.death, IdsOf(fish)),
                    repro |-> KeepRefs(spriteRefs.repro, IdsOf(fish))]
  /\ Hist("render", 0)
  /\ UNCHANGED <<clockVars, hyacinths, fish, managerRef, nextId, frameCount, frame,
                 probeVars>>
Render ==
  /\ frame.pc = "idle"
  /\ rendered # Snapshot
  /\ rendered' = Snapshot
  /\ riverInstance' = Snapshot.river
  /\ spriteRefs' = [growth |-> KeepRefs(spriteRefs.growth, IdsOf(hyacinths)),
                    death |-> KeepRefs(spriteRefs.death, IdsOf(fish)),
                    repro |-> KeepRefs(spriteRefs.repro, IdsOf(fish))]
  /\ Hist("render", 0)
  /\ UNCHANGED <<clockVars, hyacinths, fish, managerRef, nextId, frameCount, frame,
                 probeVars>>

\* A river setter runs in a React event handler: the river is updated and
\* React renders before the browser runs the next frame.
RenderAfter(river, op, arg) ==
  LET flushed == handleCurrentDOChange(river, currentDO(hyacinths, river))
  IN /\ frame.pc = "idle"
     /\ riverInstance' = flushed
     /\ rendered' = [hyacinths |-> hyacinths, fish |-> fish, river |-> flushed]
     /\ spriteRefs' = [growth |-> KeepRefs(spriteRefs.growth, IdsOf(hyacinths)),
                       death |-> KeepRefs(spriteRefs.death, IdsOf(fish)),
                       repro |-> KeepRefs(spriteRefs.repro, IdsOf(fish))]
     /\ Hist(op, arg)
     /\ UNCHANGED <<clockVars, hyacinths, fish, managerRef, nextId, frameCount,
                    frame, probeVars>>

HandleNutrientsChange(nutrients) ==
  RenderAfter(handleNutrientsChange(riverInstance, nutrients), "setNutrients", nutrients)

HandlePollutionChange(pollution) ==
  RenderAfter(handlePollutionChange(riverInstance, pollution), "setPollution", pollution)

HandleSunlightChange(sunlight) ==
  RenderAfter(handleSunlightChange(riverInstance, sunlight), "setSunlight", sunlight)

\* ------------------------------------------------------------ UI commands
\* window.addHyacinth: setHyacinths([...hyacinths, plant]), hyacinths being
\* the array of the render that installed the function.
AddHyacinth ==
  /\ frame.pc = "idle"
  /\ \E nur \in NurInputs, pol \in PolInputs, fd \in FutureInputs :
       hyacinths' = Append(rendered.hyacinths, newHyacinth(nextId, NoParent, nur, pol, fd))
  /\ nextId' = nextId + 1
  /\ Hist("addHyacinth", 0)
  /\ UNCHANGED <<clockVars, fish, rendered, riverInstance, managerRef, spriteRefs,
                 frameCount, frame, probeVars>>

\* window.addFish: setFish([...fish, newFish]); reproduceRate 0.05
AddFish ==
  /\ frame.pc = "idle"
  /\ fish' = Append(rendered.fish, newFish(nextId, 5))
  /\ nextId' = nextId + 1
  /\ Hist("addFish", 0)
  /\ UNCHANGED <<clockVars, hyacinths, rendered, riverInstance, managerRef,
                 spriteRefs, frameCount, frame, probeVars>>

\* updateAllFishReproduceRate: an updater that maps every fish of the
\* current list to the new rate.
updateAllFishReproduceRate(current, newReproduceRate) ==
  [i \in 1..Len(current) |-> [current[i] EXCEPT !.reproduceRate = newReproduceRate]]

\* window.updateAllFishReproduceRate(rate), as App's rate slider calls it: the
\* updater is queued on AgentScene's state and applied when React renders it.
UpdateAllFishReproduceRate(newReproduceRate) ==
  /\ frame.pc = "idle"
  /\ fish' = updateAllFishReproduceRate(fish, newReproduceRate)
  /\ Hist("updateAllFish", newReproduceRate)
  /\ UNCHANGED <<clockVars, hyacinths, rendered, riverInstance, managerRef,
                 spriteRefs, nextId, frameCount, frame, probeVars>>

\* App.handleSetup: resetAgents(); setupHyacinths(n, r); setupFish(m, r).
\* setupHyacinths appends by updater; setupFish sets [...fish, ...newFish]
\* over the rendered fish; both return at once for a count <= 0.
RECURSIVE NewHyacinths(_, _, _)
NewHyacinths(firstId, count, fds) ==
  IF count = 0 THEN <<>>
  ELSE <<newHyacinth(firstId, NoParent, 50, 5, fds[1])>>
       \o NewHyacinths(firstId + 1, count - 1, Tail(fds))

RECURSIVE NewFishes(_, _, _)
NewFishes(firstId, count, reproduceRate) ==
  IF count = 0 THEN <<>>
  ELSE <<newFish(firstId, reproduceRate)>>
       \o NewFishes(firstId + 1, count - 1, reproduceRate)

HandleSetup(hyacinthCount, fishCount) ==
  /\ frame.pc = "idle"
  /\ \E fds \in [1..hyacinthCount -> FutureInputs], rate \in FishRateInputs :
       /\ hyacinths' = NewHyacinths(nextId, hyacinthCount, fds)
       /\ fish' = IF fishCount <= 0 THEN <<>>
                  ELSE rendered.fish \o NewFishes(nextId + hyacinthCount, fishCount, rate)
  /\ nextId' = nextId + hyacinthCount + fishCount
  /\ Hist("setup", 0)
  /\ UNCHANGED <<clockVars, rendered, riverInstance, managerRef, spriteRefs,
                 frameCount, frame, probeVars>>

\* App.handleReset: resetSimulation(); resetAgents(); resetRiver() and then
\* updateRiver({pollutionLevel: 100, totalNutrients: 500}).
HandleReset ==
  /\ frame.pc = "idle"
  /\ Notifying("reset", 0, resetSimulation(simulationState))
  /\ hyacinths' = <<>>
  /\ fish' = <<>>
  /\ riverInstance' = [defaultRiver EXCEPT !.pollutionLevel = 10000,
                                           !.totalNutrients = 500000]
  /\ UNCHANGED <<rendered, managerRef, spriteRefs, nextId, frameCount, frame,
                 probeVars>>

HandleTogglePlayPause ==
  /\ frame.pc = "idle"
  /\ TogglePlayPause
  /\ UNCHANGED <<popVars, probeVars>>

\* ------------------------------------------------------- specifications
PopInit ==
  /\ hyacinths = <<>>
  /\ fish = <<>>
  /\ riverInstance = handleCurrentDOChange(defaultRiver, currentDO(<<>>, defaultRiver))
  /\ rendered = [hyacinths |-> <<>>, fish |-> <<>>, river |-> riverInstance]
  /\ managerRef = 0
  /\ spriteRefs = [growth |-> <<>>, death |-> <<>>, repro |-> <<>>]
  /\ nextId = 1
  /\ frameCount = 0
  /\ frame = [pc |-> "idle", i |-> 0, dt |-> 0]

PlacementIdle(width) ==
  [pc |-> "idle", width |-> width, setups |-> 0, todo |-> 0, fishCount |-> 0,
   attempts |-> 0, foundValidPosition |-> FALSE, x |-> 0, y |-> 0,
   newAgents |-> <<>>, closure |-> <<>>, hyacinths |-> <<>>, fish |-> <<>>]

SweepIdle(layout) ==
  [allHyacinths |-> layout, current |-> layout, i |-> 1, sweeps |-> 0,
   nextId |-> Len(layout) + 1]

ProbeIdle ==
  /\ probeDO = <<0, 0>> /\ probeRate = <<>>
  /\ placement = PlacementIdle(0)
  /\ twins = TwinIdle /\ swim = SwimIdle
  /\ counterScene = CounterIdle
  /\ riverModule = RiverModuleIdle
  /\ sweep = SweepIdle(<<>>)

ClockInit ==
  /\ simulationState = initialSimulationState
  /\ stateChangeListeners = <<>>
  /\ seen = [l \in ListenerIds |-> "none"]
  /\ unsubs = {}
  /\ lastOp = "init"
  /\ lastArg = 0
  /\ wasRunning = FALSE
  /\ pendingRate = NoRate
  /\ births = <<>>

\* The whole program: the ticker, React's renders and the UI commands.  App
\* registers its state-change listener when it mounts.
Init ==
  /\ simulationState = initialSimulationState
  /\ stateChangeListeners = <<1>>
  /\ seen = [l \in ListenerIds |-> IF l = 1 THEN initialSimulationState ELSE "none"]
  /\ unsubs = {1}
  /\ lastOp = "init"
  /\ lastArg = 0
  /\ wasRunning = FALSE
  /\ pendingRate = NoRate
  /\ births = <<>>
  /\ PopInit
  /\ ProbeIdle

\* The bounds: running frames and agent ids are limited, nothing else.
Bounded == frameCount' <= MaxFrames /\ nextId' <= MaxAgents + 1

Next ==
  \/ \E deltaTime \in FrameDeltas : ManagerTick(deltaTime) /\ Bounded
  \/ HyacinthTick /\ Bounded
  \/ FishTick /\ Bounded
  \/ Render
  \/ HandleTogglePlayPause
  \/ HandleReset
  \/ AddHyacinth /\ Bounded
  \/ AddFish /\ Bounded
  \/ \E counts \in SetupCounts : HandleSetup(counts[1], counts[2]) /\ Bounded

Spec == Init /\ [][Next]_vars

\* One lineage of plants followed until it reproduces: a single founder is
\* put into the fresh river, by window.addHyacinth or by handleSetup, and
\* window.addHyacinth is called again once the founder has a daughter.
LineageBounded == frameCount' <= MaxGrowthFrames /\ nextId' <= MaxLineage + 1

LineageNext ==
  \/ \E deltaTime \in FrameDeltas : ManagerTick(deltaTime) /\ LineageBounded
  \/ HyacinthTick /\ LineageBounded
  \/ Render
  \/ HandleTogglePlayPause
  \/ (nextId = 1 \/ nextId >= 3) /\ AddHyacinth /\ LineageBounded
  \/ nextId = 1 /\ HandleSetup(1, 0)

SpecLineage == Init /\ [][LineageNext]_vars

\* One lineage with every commit rendered before the next frame starts: the
\* founder is added once, frames run, and plants grow, reproduce and die.
BudgetBounded == frameCount' <= MaxBudgetFrames /\ nextId' <= MaxLineage + 1

BudgetNext ==
  \/ \E deltaTime \in FrameDeltas :
       rendered = Snapshot /\ ManagerTick(deltaTime) /\ BudgetBounded
  \/ HyacinthTick /\ BudgetBounded
  \/ Render
  \/ HandleTogglePlayPause
  \/ nextId = 1 /\ AddHyacinth /\ BudgetBounded

SpecBudget == Init /\ [][BudgetNext]_vars

\* A plant close to its full size: it was added alone, has grown for 23 or
\* 24 growth ticks of 0.08 kg without finding space for a daughter, and is
\* two steps or one step below MAX_BIOMASS with all it gained still counted.
MatureTicks == {23, 24}

maturePlant(growthTicks, futureDaughters) ==
  LET grownBy == growthTicks * calculateGrowthRate(defaultRiver.temperature,
                                                   defaultRiver.sunlight, 50)
  IN [newHyacinth(1, NoParent, 50, 5, futureDaughters) EXCEPT
        !.biomass = INIT_BIOMASS + grownBy,
        !.biomassGained = grownBy]

MatureInit ==
  /\ simulationState = initialSimulationState
  /\ stateChangeListeners = <<1>>
  /\ seen = [l \in ListenerIds |-> IF l = 1 THEN initialSimulationState ELSE "none"]
  /\ unsubs = {1}
  /\ lastOp = "init"
  /\ lastArg = 0
  /\ wasRunning = FALSE
  /\ pendingRate = NoRate
  /\ births = <<>>
  /\ \E growthTicks \in MatureTicks, fd \in FutureInputs :
       hyacinths = <<maturePlant(growthTicks, fd)>>
  /\ fish = <<>>
  /\ riverInstance = handleCurrentDOChange(defaultRiver, currentDO(hyacinths, defaultRiver))
  /\ rendered = [hyacinths |-> hyacinths, fish |-> <<>>, river |-> riverInstance]
  /\ managerRef = 0
  /\ spriteRefs = [growth |-> KeepRefs(<<>>, {1}), death |-> <<>>, repro |-> <<>>]
  /\ nextId = 2
  /\ frameCount = 0
  /\ frame = [pc |-> "idle", i |-> 0, dt |-> 0]
  /\ ProbeIdle

MatureBounded == frameCount' <= MaxMatureFrames /\ nextId' <= MaxMatureAgents + 1

MatureNext ==
  \/ \E deltaTime \in FrameDeltas : ManagerTick(deltaTime) /\ MatureBounded
  \/ HyacinthTick /\ MatureBounded
  \/ Render
  \/ HandleTogglePlayPause

SpecMature == MatureInit /\ [][MatureNext]_vars

\* The river and its feedback: the pollution slider (0 to 100 %), plants and
\* fish added from the UI, the ticker and the renders.
PollutionInputs == {0, 5000, 10000}

RiverBounded == frameCount' <= MaxRiverFrames /\ nextId' <= MaxRiverAgents + 1

RiverNext ==
  \/ \E pollution \in PollutionInputs : HandlePollutionChange(pollution)
  \/ \E deltaTime \in FrameDeltas : ManagerTick(deltaTime) /\ RiverBounded
  \/ HyacinthTick /\ RiverBounded
  \/ FishTick /\ RiverBounded
  \/ Render
  \/ HandleTogglePlayPause
  \/ AddHyacinth /\ RiverBounded
  \/ AddFish /\ RiverBounded

SpecRiver == Init /\ [][RiverNext]_vars

\* The fish alone: fish are added one by one or by a setup, the rate slider
\* rewrites their reproduction rate to one of its two ends, and frames run.
FishSetupCounts == {<<0, 1>>}         \* handleSetup: no plants, one fish
BulkRateInputs == {1, 100}           \* the slider at its ends, 1 % and 100 %

FishBounded == frameCount' <= MaxFishFrames /\ nextId' <= MaxFishAgents + 1

FishNext ==
  \/ \E rate \in BulkRateInputs : UpdateAllFishReproduceRate(rate)
  \/ \E deltaTime \in FrameDeltas : ManagerTick(deltaTime) /\ FishBounded
  \/ FishTick /\ FishBounded
  \/ Render
  \/ HandleTogglePlayPause
  \/ AddFish /\ FishBounded
  \/ \E counts \in FishSetupCounts : HandleSetup(counts[1], counts[2]) /\ FishBounded

SpecFish == Init /\ [][FishNext]_vars

\* The consumption cadence: one plant in the river, frames of Pixi's shortest
\* and longest ticker.deltaTime, and the speed slider moved to its top.
CadenceDeltas == {2, 6}              \* ticker.deltaTime, in frames
CadenceSpeeds == {200}               \* setSpeedMultiplier(20)

CadenceBounded == frameCount' <= MaxCadenceFrames /\ nextId' <= MaxCadenceAgents + 1

CadenceNext ==
  \/ \E speed \in CadenceSpeeds : SetSpeedMultiplier(speed) /\ UNCHANGED <<popVars, probeVars>>
  \/ \E deltaTime \in CadenceDeltas : ManagerTick(deltaTime) /\ CadenceBounded
  \/ HyacinthTick /\ CadenceBounded
  \/ Render
  \/ HandleTogglePlayPause
  \/ AddHyacinth /\ CadenceBounded

SpecCadence == Init /\ [][CadenceNext]_vars

\* ------------------------------------------------- the id counter variant
\* The AgentScene variant that numbers its agents from a counter kept in
\* React state (useState(0)).  counterScene.hyacinths and .hyacinthIdCounter
\* are the committed state, .props what the last render of AgentScene saw:
\* its closures read hyacinths and hyacinthIdCounter from there.
NoCounterParent == -1                \* parent: null (ids start at 0 here)
CounterFutureInputs == {1, 4}        \* Math.floor(Math.random() * 4) + 1

counterHyacinth(id, parent, futureDaughters) ==
  [id |-> id, parent |-> parent, daughters |-> <<>>, currentDaughters |-> 0,
   futureDaughters |-> futureDaughters, biomassGained |-> 0]

CounterMount ==
  /\ counterScene.phase = "idle"
  /\ counterScene' = [phase |-> "mounted", hyacinths |-> <<>>,
                      hyacinthIdCounter |-> 0,
                      props |-> [hyacinths |-> <<>>, hyacinthIdCounter |-> 0],
                      requests |-> 0]
  /\ Hist("counterMount", 0)
  /\ UNCHANGED <<clockVars, popVars, riverModule, probeDO, probeRate, placement, sweep,
                 twins, swim>>

\* addHyacinth: the new array and the new counter are plain values built
\* from the closure.
counterAddHyacinth(scene, futureDaughters) ==
  [scene EXCEPT
     !.hyacinths = Append(scene.props.hyacinths,
                          counterHyacinth(scene.props.hyacinthIdCounter,
                                          NoCounterParent, futureDaughters)),
     !.hyacinthIdCounter = scene.props.hyacinthIdCounter + 1]

CounterAddHyacinth ==
  /\ counterScene.phase = "mounted"
  /\ counterScene.requests < MaxCounterRequests
  /\ \E fd \in CounterFutureInputs :
       counterScene' = [counterAddHyacinth(counterScene, fd) EXCEPT !.requests = @ + 1]
  /\ Hist("counterAdd", 0)
  /\ UNCHANGED <<clockVars, popVars, riverModule, probeDO, probeRate, placement, sweep,
                 twins, swim>>

\* handleHyacinthReproduction: the parent and the daughter's id are read
\* from the closure, the array is changed by an updater, the counter is set
\* to a plain value.
counterReproduction(scene, parentId, futureDaughters) ==
  IF ~HasId(scene.props.hyacinths, parentId) THEN scene
  ELSE LET daughterId == scene.props.hyacinthIdCounter
       IN [scene EXCEPT
             !.hyacinths =
               Append([i \in 1..Len(scene.hyacinths) |->
                         IF scene.hyacinths[i].id = parentId
                         THEN [scene.hyacinths[i] EXCEPT
                                 !.daughters = Append(@, daughterId),
                                 !.currentDaughters = @ + 1,
                                 !.biomassGained = 0]
                         ELSE scene.hyacinths[i]],
                      counterHyacinth(daughterId, parentId, futureDaughters)),
             !.hyacinthIdCounter = scene.props.hyacinthIdCounter + 1]

\* a mounted HyacinthSprite calls onReproduction with its plant's id
CounterReproduction ==
  /\ counterScene.phase = "mounted"
  /\ counterScene.requests < MaxCounterRequests
  /\ \E parentId \in IdsOf(counterScene.props.hyacinths), fd \in CounterFutureInputs :
       /\ counterScene' = [counterReproduction(counterScene, parentId, fd)
                             EXCEPT !.requests = @ + 1]
       /\ Hist("counterReproduction", parentId)
  /\ UNCHANGED <<clockVars, popVars, riverModule, probeDO, probeRate, placement, sweep,
                 twins, swim>>

\* React renders AgentScene: the closures see the committed state.
CounterRender ==
  /\ counterScene.phase = "mounted"
  /\ counterScene.props # [hyacinths |-> counterScene.hyacinths,
                            hyacinthIdCounter |-> counterScene.hyacinthIdCounter]
  /\ counterScene' = [counterScene EXCEPT
                        !.props = [hyacinths |-> counterScene.hyacinths,
                                   hyacinthIdCounter |-> counterScene.hyacinthIdCounter]]
  /\ Hist("counterRender", 0)
  /\ UNCHANGED <<clockVars, popVars, riverModule, probeDO, probeRate, placement, sweep,
                 twins, swim>>

CounterNext ==
  CounterMount \/ CounterAddHyacinth \/ CounterReproduction \/ CounterRender

CounterInit == ClockInit /\ PopInit /\ ProbeIdle

SpecCounter == CounterInit /\ [][CounterNext]_vars

\* ------------------------------------------------------ the river module
\* River's module-level singleton driven through its exports.  The instance
\* is a sequence of length 0 (null) or 1; flowRate is in tenths.
riverDefaults == defaultRiver @@ [flowDirection |-> 0, flowRate |-> 10]

createRiverMutFresh(instance) == <<riverDefaults>>

createRiver(instance) == IF instance = <<>> THEN <<riverDefaults>> ELSE instance

getRiver(instance) == IF instance = <<>> THEN createRiver(instance) ELSE instance

updateRiverInstance(instance, updates) ==
  <<updateRiver(createRiver(instance)[1], updates)>>

resetRiver == <<riverDefaults>>

\* the partial rivers handed to updateRiver
UpdateInputs ==
  {[totalNutrients |-> 0],
   [pollutionLevel |-> 10000, sunlight |-> 10],
   [currentDissolvedOxygen |-> 9000],
   [initialDissolvedOxygen |-> -1000, temperature |-> 25],
   [flowRate |-> 0, flowDirection |-> 3]}

RiverCall(op, instance, updates) ==
  /\ riverModule.calls < MaxRiverCalls
  /\ riverModule' = [riverInstance |-> instance, returned |-> instance,
                     updates |-> updates, calls |-> riverModule.calls + 1]
  /\ Hist(op, 0)
  /\ UNCHANGED <<clockVars, popVars, counterScene, probeDO, probeRate, placement,
                 sweep, twins, swim>>

CreateRiver == RiverCall("createRiver", createRiver(riverModule.riverInstance), <<>>)
GetRiver == RiverCall("getRiver", getRiver(riverModule.riverInstance), <<>>)
UpdateRiver(updates) ==
  RiverCall("updateRiver", updateRiverInstance(riverModule.riverInstance, updates),
            updates)
ResetRiver == RiverCall("resetRiver", resetRiver, <<>>)

RiverModuleNext ==
  \/ CreateRiver
  \/ GetRiver
  \/ \E updates \in UpdateInputs : UpdateRiver(updates)
  \/ ResetRiver

SpecRiverModule == CounterInit /\ [][RiverModuleNext]_vars



\* The configuration setters of the river controls, called with values inside
\* and outside the sliders' ranges, around one plant that grows and feeds.
NutrientInputs == {-5000, 0, 50}     \* -5 kg, 0, 0.05 kg
SunlightInputs == {-5, 10}           \* -0.5 and 1.0
SetterPollutionInputs == {-2000, 5}  \* -20 % and 0.05 %

SetterBounded == frameCount' <= MaxSetterFrames /\ nextId' <= MaxSetterAgents + 1

SettersNext ==
  \/ \E nutrients \in NutrientInputs : HandleNutrientsChange(nutrients)
  \/ \E sunlight \in SunlightInputs : HandleSunlightChange(sunlight)
  \/ \E pollution \in SetterPollutionInputs : HandlePollutionChange(pollution)
  \/ \E deltaTime \in FrameDeltas : ManagerTick(deltaTime) /\ SetterBounded
  \/ HyacinthTick /\ SetterBounded
  \/ Render
  \/ HandleTogglePlayPause
  \/ AddHyacinth /\ SetterBounded

SpecSetters == Init /\ [][SettersNext]_vars

\* Bulk setup alone: handleSetup placing plants and then fish on a screen of
\* width x ScreenHeight cells.  Positions are whole cells; the minimum
\* distance of either species is MinDistance cells.
MaxAttempts == 100
ScreenWidths == {2, 4}
ScreenHeight == 1
MinDistance == 2
PlacementCounts == {<<1, 1>>, <<2, 2>>}   \* <<hyacinthCount, fishCount>>

\* some((agent) => Math.sqrt(dx * dx + dy * dy) < minDistance)
Overlaps(agents, x, y, minDistance) ==
  \E i \in 1..Len(agents) :
    (agents[i][1] - x) * (agents[i][1] - x) + (agents[i][2] - y) * (agents[i][2] - y)
      < minDistance * minDistance

PlacementStep(op, next) ==
  /\ placement' = next
  /\ Hist(op, 0)
  /\ UNCHANGED <<clockVars, popVars, counterScene, riverModule, probeDO, probeRate, sweep, twins, swim>>

\* App.handleSetup: resetAgents() queues the two empty lists, then
\* setupHyacinths starts with the plants of the last render in its closure.
SetupBegin(hyacinthCount, fishCount) ==
  /\ placement.pc = "idle"
  /\ placement.setups < MaxSetups
  /\ hyacinthCount > 0
  /\ PlacementStep("setupBegin",
        [placement EXCEPT !.pc = "hyacinths", !.setups = @ + 1,
                          !.todo = hyacinthCount, !.fishCount = fishCount,
                          !.attempts = 0, !.foundValidPosition = FALSE,
                          !.newAgents = <<>>, !.closure = placement.hyacinths])

\* one pass of while (!foundValidPosition && attempts < 100)
SetupAttempt ==
  /\ placement.pc \in {"hyacinths", "fish"}
  /\ placement.todo > 0
  /\ ~placement.foundValidPosition /\ placement.attempts < MaxAttempts
  /\ \E x \in 0..placement.width - 1, y \in 0..ScreenHeight - 1 :
       LET overlapsExisting == Overlaps(placement.closure, x, y, MinDistance)
           overlapsNew == Overlaps(placement.newAgents, x, y, MinDistance)
       IN PlacementStep("setupAttempt",
            [placement EXCEPT !.x = x, !.y = y,
               !.foundValidPosition = ~overlapsExisting /\ ~overlapsNew,
               !.attempts = @ + 1])

\* after the loop: the fallback position, then newHyacinths.push / newFish.push
SetupPush ==
  /\ placement.pc \in {"hyacinths", "fish"}
  /\ placement.todo > 0
  /\ placement.foundValidPosition \/ placement.attempts >= MaxAttempts
  /\ \E fx \in 0..placement.width - 1, fy \in 0..ScreenHeight - 1 :
       LET fallback == ~placement.foundValidPosition /\ placement.attempts >= MaxAttempts
           x == IF fallback THEN fx ELSE placement.x
           y == IF fallback THEN fy ELSE placement.y
       IN PlacementStep("setupPush",
            [placement EXCEPT !.x = x, !.y = y,
               !.newAgents = Append(@, <<x, y>>),
               !.todo = @ - 1, !.attempts = 0, !.foundValidPosition = FALSE])

\* setHyacinths((prev) => [...prev, ...newHyacinths]) on the list resetAgents
\* emptied, then setupFish; setFish([...fish, ...newFish]) on the fish of the
\* last render.  setupFish returns at once when count <= 0.
SetupCommit ==
  /\ placement.pc \in {"hyacinths", "fish"}
  /\ placement.todo = 0
  /\ PlacementStep("setupCommit",
        IF placement.pc = "hyacinths"
        THEN IF placement.fishCount <= 0
             THEN [placement EXCEPT !.pc = "idle", !.hyacinths = placement.newAgents,
                                    !.fish = <<>>, !.newAgents = <<>>]
             ELSE [placement EXCEPT !.pc = "fish", !.hyacinths = placement.newAgents,
                                    !.todo = placement.fishCount,
                                    !.newAgents = <<>>, !.closure = placement.fish]
        ELSE [placement EXCEPT !.pc = "idle",
                               !.fish = placement.closure \o placement.newAgents,
                               !.newAgents = <<>>])

SetupInit ==
  /\ ClockInit
  /\ PopInit
  /\ probeDO = <<0, 0>> /\ probeRate = <<>>
  /\ \E width \in ScreenWidths : placement = PlacementIdle(width)
  /\ twins = TwinIdle /\ swim = SwimIdle
  /\ counterScene = CounterIdle
  /\ riverModule = RiverModuleIdle
  /\ sweep = SweepIdle(<<>>)

SetupNext ==
  \/ \E c \in PlacementCounts : SetupBegin(c[1], c[2])
  \/ SetupAttempt
  \/ SetupPush
  \/ SetupCommit

SpecSetup == SetupInit /\ [][SetupNext]_vars

\* Plant reproduction in space: one sweep of growth ticks over plants that
\* stand at whole positions of a window of InnerWidth x InnerHeight.  With a
\* sprite of size 10 the search radius is 20, the diagonal offset
\* cos(45 deg) * 20 is 14 and the minimum distance 7.  Every plant starts
\* one growth tick short of the lower reproduction threshold.
InnerWidth == 28
InnerHeight == 28
Radius == 20
Diagonal == 14
HyacinthMinDistance == 7
NoPosition == <<>>

\* angles 0, 45, ..., 315 degrees
Offsets ==
  <<<<Radius, 0>>, <<Diagonal, Diagonal>>, <<0, Radius>>, <<-Diagonal, Diagonal>>,
    <<-Radius, 0>>, <<-Diagonal, -Diagonal>>, <<0, -Radius>>, <<Diagonal, -Diagonal>>>>

Wrap(v, size) == IF v > size THEN v - size ELSE IF v < 0 THEN v + size ELSE v

Candidate(parent, k) ==
  <<Wrap(parent.x + Offsets[k][1], InnerWidth),
    Wrap(parent.y + Offsets[k][2], InnerHeight)>>

validPosition(position, parent, allHyacinths) ==
  \A i \in 1..Len(allHyacinths) :
    \/ allHyacinths[i].id = parent.id
    \/ (position[1] - allHyacinths[i].x) * (position[1] - allHyacinths[i].x)
         + (position[2] - allHyacinths[i].y) * (position[2] - allHyacinths[i].y)
       >= HyacinthMinDistance * HyacinthMinDistance

reproductionPositionMutNoNull(parent, allHyacinths) ==
  LET valid == {k \in 1..8 : validPosition(Candidate(parent, k), parent, allHyacinths)}
  IN IF valid = {} THEN Candidate(parent, 1)
     ELSE Candidate(parent, CHOOSE k \in valid : \A j \in valid : k <= j)

\* findReproductionSpace(hyacinth, allHyacinths, spriteSize)
reproductionPosition(parent, allHyacinths) ==
  LET valid == {k \in 1..8 : validPosition(Candidate(parent, k), parent, allHyacinths)}
  IN IF valid = {} THEN NoPosition
     ELSE Candidate(parent, CHOOSE k \in valid : \A j \in valid : k <= j)

\* a plant of 7 growth ticks at a position
plantAt(id, position, futureDaughters) ==
  [id |-> id, biomass |-> INIT_BIOMASS + 56000, nur |-> 50, pol |-> 5,
   parent |-> NoParent, daughters |-> <<>>, currentDaughters |-> 0,
   futureDaughters |-> futureDaughters, biomassGained |-> 56000,
   dissolvedOxygenImpact |-> 50, x |-> position[1], y |-> position[2]]

daughterAt(id, parentId, position, nur, pol, futureDaughters) ==
  [id |-> id, biomass |-> INIT_BIOMASS, nur |-> nur, pol |-> pol,
   parent |-> parentId, daughters |-> <<>>, currentDaughters |-> 0,
   futureDaughters |-> futureDaughters, biomassGained |-> 0,
   dissolvedOxygenImpact |-> 50, x |-> position[1], y |-> position[2]]

\* the layouts a sweep starts from: one plant, two plants across the window
\* edge, and a plant hemmed in on all eight sides
Layouts ==
  {<<<<0, 0>>>>,
   <<<<0, 0>>, <<26, 4>>>>,
   <<<<0, 0>>, <<10, 10>>>>,
   <<<<10, 10>>, <<6, 6>>, <<14, 14>>, <<24, 24>>>>}

\* HyacinthSprite's growth tick for the sprite at sweep.i, its cadence due:
\* growth, then the reproduction check with findReproductionSpace on the
\* allHyacinths prop
GrowthTick ==
  /\ sweep.i \in 1..Len(sweep.allHyacinths)
  /\ LET h == sweep.allHyacinths[sweep.i]
         river == rendered.river
         grows == growthAllowed(h, river)
         newBiomassGained ==
           h.biomassGained + calculateGrowthRate(river.temperature, river.sunlight, h.nur)
         grown == IF grows
                  THEN handleHyacinthBiomassGainedChange(
                         handleHyacinthBiomassChange(sweep.current, h.id,
                                                     growthResult(h, river)),
                         h.id, newBiomassGained)
                  ELSE sweep.current
         position == reproductionPosition(h, sweep.allHyacinths)
     IN \E reproductionThreshold \in ThresholdInputs,
           nur \in NurInputs, pol \in PolInputs, fd \in FutureInputs :
          LET reproduces ==
                /\ grows
                /\ newBiomassGained >= reproductionThreshold
                /\ h.currentDaughters < h.futureDaughters
                /\ h.biomass < MAX_BIOMASS
                /\ position # NoPosition
          IN sweep' = [sweep EXCEPT
               !.current = IF reproduces
                           THEN handleHyacinthReproduction(
                                  grown, h.id,
                                  daughterAt(sweep.nextId, h.id, position, nur, pol, fd))
                           ELSE grown,
               !.nextId = IF reproduces THEN @ + 1 ELSE @,
               !.i = @ + 1]
  /\ Hist("growthTick", 0)
  /\ UNCHANGED <<clockVars, popVars, counterScene, riverModule, probeDO, probeRate, placement, twins, swim>>

\* the render after a sweep
SweepRender ==
  /\ sweep.i > Len(sweep.allHyacinths)
  /\ sweep.sweeps < MaxSweeps
  /\ sweep' = [sweep EXCEPT !.allHyacinths = sweep.current, !.i = 1,
                            !.sweeps = @ + 1]
  /\ Hist("sweepRender", 0)
  /\ UNCHANGED <<clockVars, popVars, counterScene, riverModule, probeDO, probeRate, placement, twins, swim>>

SpaceInit ==
  /\ ClockInit
  /\ PopInit
  /\ probeDO = <<0, 0>> /\ probeRate = <<>>
  /\ placement = PlacementIdle(0)
  /\ twins = TwinIdle /\ swim = SwimIdle
  /\ counterScene = CounterIdle
  /\ riverModule = RiverModuleIdle
  /\ \E layout \in Layouts, fd \in FutureInputs :
       sweep = SweepIdle([i \in 1..Len(layout) |-> plantAt(i, layout[i], fd)])

SpaceNext == GrowthTick \/ SweepRender

SpecSpace == SpaceInit /\ [][SpaceNext]_vars

\* Fish movement along one line: the fish, its targets and the flow lie on a
\* horizontal line (flowDirection 0, every target at the fish's height), so
\* that the direction to the target is exactly +1 or -1 and vy stays 0.
\* Positions are in 1e-4 px, velocities in 1e-3 px per frame, deltaTime in
\* tenths of a frame, speeds and resistance in tenths.
Pixel == 10000
maxSpeed == 2000                     \* 2 px per frame
NoTarget == -1                       \* targetX and targetY still undefined

WorldWidths == {200 * Pixel, 1000 * Pixel}   \* app.screen.width
BaseDeltas == {1, 6}                 \* ticker.deltaTime at 60 and at 10 frames per second
SwimSpeedInputs == {10, 200}         \* getSpeedMultiplier(): 1.0 and 20.0
SteerInputs == {5, 10}               \* 0.5 + Math.random() * 0.5
TimerInputs == {2000, 5000}          \* Math.random() * 300 + 200 frames
FlowRateInputs == {0, 10}            \* river.flowRate, the ends of its slider
ResistanceInputs == {5, 10}          \* Math.random() * 0.5 + 0.5
TargetInputs(width) == {width \div 4, width}  \* Math.random() * app.screen.width

\* The edge wrapping of the movement code: one width is taken off or added.
wrapPosition(newX, width) ==
  IF newX > width THEN newX - width
  ELSE IF newX < 0 THEN newX + width
  ELSE newX

\* One movement step of FishSprite's tick.  target and timer are what
\* getNewTarget() and Math.random() return if they are called.
moveFish(s, deltaTime, speed, target, timer, flowRate) ==
  LET countdown == s.movementTimer - deltaTime
      retarget == countdown <= 0 \/ s.targetX = NoTarget
      targetX == IF retarget THEN target ELSE s.targetX
      dx == (IF targetX = 0 THEN s.x ELSE targetX) - s.x
      distance == Abs(dx)
      steered == s.vx + (IF dx > 0 THEN 1 ELSE -1) * speed * deltaTime
      vx == IF distance < 10 * Pixel THEN 0
            ELSE IF Abs(steered) > maxSpeed
                 THEN (steered * maxSpeed) \div Abs(steered)
                 ELSE steered
      riverFlowX == flowRate * deltaTime * 50
      newX == s.x + vx * deltaTime + (riverFlowX * (10 - s.resistance)) \div 10
  IN [s EXCEPT !.x = wrapPosition(newX, s.width),
               !.vx = vx,
               !.targetX = IF distance < 5 * Pixel THEN target ELSE targetX,
               !.movementTimer = IF retarget THEN timer ELSE countdown,
               !.steps = s.steps + 1]

\* A fish is added in the middle of the screen; FishSprite mounts with zero
\* velocity, no target and movementTimer 0.
SwimSpawn ==
  /\ swim.phase = "idle"
  /\ \E width \in WorldWidths, resistance \in ResistanceInputs :
       swim' = [phase |-> "swimming", x |-> width \div 2, vx |-> 0,
                targetX |-> NoTarget, movementTimer |-> 0, width |-> width,
                resistance |-> resistance, steps |-> 0]
  /\ Hist("swimSpawn", 0)
  /\ UNCHANGED <<clockVars, popVars, counterScene, riverModule, probeDO, probeRate, placement, sweep, twins>>

SwimTick ==
  /\ swim.phase = "swimming"
  /\ swim.steps < MaxSwimSteps
  /\ \E baseDeltaTime \in BaseDeltas, speedMultiplier \in SwimSpeedInputs,
        speed \in SteerInputs, target \in TargetInputs(swim.width),
        timer \in TimerInputs, flowRate \in FlowRateInputs :
       /\ swim' = moveFish(swim, baseDeltaTime * speedMultiplier, speed, target,
                           timer, flowRate)
       /\ Hist("swimTick", baseDeltaTime * speedMultiplier)
  /\ UNCHANGED <<clockVars, popVars, counterScene, riverModule, probeDO, probeRate, placement, sweep, twins>>

SwimInit == ClockInit /\ PopInit /\ ProbeIdle

SwimNext == SwimSpawn \/ SwimTick

SpecSwim == SwimInit /\ [][SwimNext]_vars

\* Shelter: two runs of one fish under the same river, frame deltas and random
\* draws, in which the collision test of the movement code has reported
\* different results, so that the two fish differ in touchingHyacinth only.
TwinRateInputs == {0, 5, 100}              \* reproduceRate 0, 0.05 and 1
TwinOxygenInputs == {0, 3000, 4800, 7000}  \* currentDissolvedOxygen, 1e-3 mg/L
TwinDeltas == {300, 600}                   \* half a second and one second

NoOutcome == [died |-> FALSE, reproduces |-> FALSE]

TwinSpawn ==
  /\ twins.phase = "idle"
  /\ \E reproduceRate \in TwinRateInputs, touching \in BOOLEAN,
        dissolvedOxygen \in TwinOxygenInputs :
       twins' = [phase |-> "running",
                 a |-> handleFishTouchingHyacinthChange(newFish(1, reproduceRate),
                                                        touching),
                 b |-> handleFishTouchingHyacinthChange(newFish(1, reproduceRate),
                                                        ~touching),
                 river |-> [currentDissolvedOxygen |-> dissolvedOxygen],
                 refsA |-> [death |-> 0, repro |-> 0],
                 refsB |-> [death |-> 0, repro |-> 0],
                 outA |-> NoOutcome, outB |-> NoOutcome, steps |-> 0]
  /\ Hist("twinSpawn", 0)
  /\ UNCHANGED <<clockVars, popVars, counterScene, riverModule, probeDO, probeRate, placement, sweep, swim>>

\* The timers of one run after its tick, as FishTick leaves them.
refsAfter(refs, outcome, scaled) ==
  LET dacc == refs.death + scaled
      racc == refs.repro + scaled
  IN IF outcome.died THEN [refs EXCEPT !.death = Min(dacc, CadenceUnit)]
     ELSE [death |-> IF dacc >= CadenceUnit THEN 0 ELSE dacc,
           repro |-> IF racc >= CadenceUnit THEN 0 ELSE racc]

\* One frame of both runs; a run whose fish has died has no sprite left.
TwinTick ==
  /\ twins.phase = "running"
  /\ twins.steps < MaxTwinSteps
  /\ ~twins.outA.died /\ ~twins.outB.died
  /\ \E scaled \in TwinDeltas, deathRoll \in RollInputs, reproductionRoll \in RollInputs :
       LET outA == fishOutcome(twins.a, twins.river, twins.refsA.death + scaled,
                               twins.refsA.repro + scaled, deathRoll, reproductionRoll)
           outB == fishOutcome(twins.b, twins.river, twins.refsB.death + scaled,
                               twins.refsB.repro + scaled, deathRoll, reproductionRoll)
       IN /\ twins' = [twins EXCEPT !.outA = outA, !.outB = outB,
                                    !.refsA = refsAfter(twins.refsA, outA, scaled),
                                    !.refsB = refsAfter(twins.refsB, outB, scaled),
                                    !.steps = twins.steps + 1]
          /\ Hist("twinTick", scaled)
  /\ UNCHANGED <<clockVars, popVars, counterScene, riverModule, probeDO, probeRate, placement, sweep, swim>>

TwinInit == ClockInit /\ PopInit /\ ProbeIdle

TwinNext == TwinSpawn \/ TwinTick

SpecTwins == TwinInit /\ [][TwinNext]_vars

\* The death-rate curve alone: FishSprite's death check evaluated at two
\* dissolved-oxygen levels drawn from a grid of 0.05 mg/L over [0, 7].
DOGrid == {50 * k : k \in 0..140}

EvaluateDeathRate ==
  /\ probeRate = <<>>
  /\ probeRate' = <<deathRate(probeDO[1]), deathRate(probeDO[2])>>
  /\ Hist("deathRate", 0)
  /\ UNCHANGED <<clockVars, popVars, counterScene, riverModule, probeDO, placement, sweep, twins, swim>>

CurveInit ==
  /\ ClockInit
  /\ PopInit
  /\ probeDO \in DOGrid \X DOGrid
  /\ probeRate = <<>>
  /\ placement = PlacementIdle(0)
  /\ twins = TwinIdle /\ swim = SwimIdle
  /\ counterScene = CounterIdle
  /\ riverModule = RiverModuleIdle
  /\ sweep = SweepIdle(<<>>)

EvaluateDeathRateLinear ==
  /\ probeRate = <<>>
  /\ probeRate' = <<deathRateLinear(probeDO[1]), deathRateLinear(probeDO[2])>>
  /\ Hist("deathRateLinear", 0)
  /\ UNCHANGED <<clockVars, popVars, counterScene, riverModule, probeDO, placement, sweep, twins, swim>>

CurveNext == EvaluateDeathRate \/ EvaluateDeathRateLinear

SpecCurve == CurveInit /\ [][CurveNext]_vars

\* The clock module alone, driven through its exported operations.


ClockNext ==
  /\ \/ PlaySimulation
     \/ PauseSimulation
     \/ TogglePlayPause
     \/ ResetSimulation
     \/ \E speed \in SpeedInputs : SetSpeedMultiplier(speed)
     \/ \E deltaTime \in DeltaInputs : UpdateGlobalTime(deltaTime)
     \/ \E l \in ListenerIds : AddStateChangeListener(l)
     \/ \E l \in ListenerIds : Unsubscribe(l)
  /\ UNCHANGED <<popVars, probeVars>>

ClockOnlyInit == ClockInit /\ PopInit /\ ProbeIdle

SpecClock == ClockOnlyInit /\ [][ClockNext]_vars

\* ------------------------------------------- the clock, earlier variant
\* The earlier SimulationControl: no dayCount, the stopped clock has
\* isPaused = false, updateGlobalTime adds deltaTime * speedMultiplier
\* unscaled and does not notify.  play, pause, setSpeedMultiplier and the
\* listener registry read the same as the final file.
initialSimulationStateEarly ==
  [isPlaying |-> FALSE, isPaused |-> FALSE, globalTime |-> 0, tickCount |-> 0,
   speedMultiplier |-> InitialSpeed]

resetSimulationEarly(s) ==
  [s EXCEPT !.isPlaying = FALSE, !.isPaused = FALSE, !.globalTime = 0,
            !.tickCount = 0]

updateGlobalTimeEarly(s, deltaTime) ==
  IF s.isPlaying /\ ~s.isPaused
  THEN [s EXCEPT !.globalTime = @ + deltaTime * s.speedMultiplier,
                 !.tickCount = @ + 1]
  ELSE s

ResetSimulationEarly == Notifying("reset", 0, resetSimulationEarly(simulationState))

UpdateGlobalTimeEarly(deltaTime) ==
  /\ isSimulationRunning(simulationState) => simulationState.tickCount < MaxTicks
  /\ simulationState' = updateGlobalTimeEarly(simulationState, deltaTime)
  /\ UNCHANGED <<stateChangeListeners, seen, unsubs>>
  /\ Hist("advance", deltaTime)

EarlyInit ==
  /\ simulationState = initialSimulationStateEarly
  /\ stateChangeListeners = <<>>
  /\ seen = [l \in ListenerIds |-> "none"]
  /\ unsubs = {}
  /\ lastOp = "init"
  /\ lastArg = 0
  /\ wasRunning = FALSE
  /\ pendingRate = NoRate
  /\ births = <<>>
  /\ PopInit /\ ProbeIdle

EarlyNext ==
  /\ \/ PlaySimulation
     \/ PauseSimulation
     \/ ResetSimulationEarly
     \/ \E speed \in SpeedInputs : SetSpeedMultiplier(speed)
     \/ \E deltaTime \in DeltaInputs : UpdateGlobalTimeEarly(deltaTime)
     \/ \E l \in ListenerIds : AddStateChangeListener(l)
     \/ \E l \in ListenerIds : Unsubscribe(l)
  /\ UNCHANGED <<popVars, probeVars>>

SpecEarly == EarlyInit /\ [][EarlyNext]_vars

\* ---------------------------------------------------- clock state names
Running == isSimulationRunning(simulationState)
Stopped == ~simulationState.isPlaying
Paused == simulationState.isPlaying /\ simulationState.isPaused
Registered(l) == \E i \in 1..Len(stateChangeListeners) : stateChangeListeners[i] = l

\* ------------------------------------------------------------------- C1
\* C1: while the clock is not running, a tick callback of SimulationManager,
\* of a plant sprite or of a fish sprite changes no clock field, no river
\* value and no agent record.
TickOps == {"managerTick", "hyacinthTick", "fishTick"}

C1_PausedTicksChangeNothing ==
  [][(lastOp' \in TickOps /\ ~Running)
       => UNCHANGED <<simulationState, riverInstance, hyacinths, fish>>]_vars

\* a whole frame (manager, plant sprite, fish sprite) has run on a clock that
\* was paused after having advanced
C1_Witness ==
  /\ lastOp = "fishTick"
  /\ Paused
  /\ simulationState.tickCount > 0
  /\ rendered.hyacinths # <<>>
  /\ hyacinths # <<>>
  /\ fish # <<>>

\* C2: resetSimulation leaves the clock stopped with globalTime, tickCount
\* and dayCount all 0, and leaves speedMultiplier as it was before the call.
C2_ResetZeroesKeepsSpeed ==
  [][lastOp' = "reset" =>
       /\ Stopped' /\ ~Running'
       /\ simulationState'.globalTime = 0
       /\ simulationState'.tickCount = 0
       /\ simulationState'.dayCount = 0
       /\ simulationState'.speedMultiplier = simulationState.speedMultiplier]_vars

\* C2 witness: a reset of a clock that was running at a speed other than the
\* initial one.
C2_Witness ==
  /\ lastOp = "reset" /\ wasRunning
  /\ simulationState.speedMultiplier = MaxSpeed
  /\ simulationState.tickCount = 0

\* C3: playSimulation makes the clock running from any state; pauseSimulation
\* pauses a running clock, and on a stopped clock it changes neither flag (it
\* makes no distinct paused state and no running one).
C3_PlayPauseTransitions ==
  [][/\ lastOp' = "play" => Running'
     /\ (lastOp' = "pause" /\ Running) => Paused'
     /\ (lastOp' = "pause" /\ Stopped) =>
           /\ simulationState'.isPlaying = simulationState.isPlaying
           /\ simulationState'.isPaused = simulationState.isPaused]_vars

\* C4: togglePlayPause turns running into paused and paused or stopped into
\* running, and a second toggle right after a first restores
\* isSimulationRunning() as it was before the first.
C4_ToggleFlips ==
  [][lastOp' = "toggle" =>
       /\ Running => Paused'
       /\ ~Running => Running'
       /\ lastOp = "toggle" => (Running' <=> wasRunning)]_vars

\* C4 witness: two toggles in a row, the first on a running clock.
C4_Witness == lastOp = "toggle" /\ ~wasRunning /\ Running /\ simulationState.tickCount > 0

\* C5: speedMultiplier always lies in [0.1, 20.0]; a request below 0.1 is
\* stored as 0.1, one above 20 as 20, one in between as given.
C5_SpeedClamped ==
  /\ simulationState.speedMultiplier >= MinSpeed
  /\ simulationState.speedMultiplier <= MaxSpeed
  /\ lastOp = "setSpeed" =>
       /\ lastArg < MinSpeed => simulationState.speedMultiplier = MinSpeed
       /\ lastArg > MaxSpeed => simulationState.speedMultiplier = MaxSpeed
       /\ (lastArg >= MinSpeed /\ lastArg <= MaxSpeed) =>
             simulationState.speedMultiplier = lastArg

\* C5 witness: a negative request was stored as 0.1.
C5_Witness ==
  lastOp = "setSpeed" /\ lastArg < 0 /\ simulationState.speedMultiplier = MinSpeed

\* C6: dayCount = floor(globalTime) in every state; an advance while running
\* adds 1 to tickCount and deltaTime * speedMultiplier / 60 s to globalTime;
\* an advance while not running changes neither.
C6_DayCountAndAdvance ==
  /\ [](simulationState.dayCount * TimeUnit <= simulationState.globalTime
        /\ simulationState.globalTime < (simulationState.dayCount + 1) * TimeUnit)
  /\ [][lastOp' = "advance" =>
          IF Running
          THEN /\ simulationState'.tickCount = simulationState.tickCount + 1
               /\ simulationState'.globalTime =
                    simulationState.globalTime + lastArg' * simulationState.speedMultiplier
          ELSE /\ simulationState'.tickCount = simulationState.tickCount
               /\ simulationState'.globalTime = simulationState.globalTime]_vars

\* C6 witness: the clock has run past the first whole second.
C6_Witness ==
  /\ lastOp = "advance" /\ wasRunning
  /\ simulationState.dayCount >= 1
  /\ simulationState.globalTime > simulationState.dayCount * TimeUnit

\* C7: every operation that changes the clock record has, when it returns,
\* run every registered listener on the updated record.
C7_ListenersNotified ==
  [][simulationState' # simulationState =>
       \A l \in ListenerIds : Registered(l)' => seen'[l] = simulationState']_vars

\* ------------------------------------------------------------------- C8
\* C8: every plant has currentDaughters <= futureDaughters, in every
\* reachable state.
C8_DaughterBudget ==
  \A i \in 1..Len(hyacinths) :
    hyacinths[i].currentDaughters <= hyacinths[i].futureDaughters

\* ------------------------------------------------------------------- C9
\* C9: every plant's parent is null or the id of a live plant and every
\* daughters list holds ids of live plants only; a death removes the dead
\* plant alone and leaves its daughters in the population with parent null.
Live(hs, id) == id \in IdsOf(hs)

LinksConsistent(hs) ==
  \A i \in 1..Len(hs) :
    /\ hs[i].parent = NoParent \/ Live(hs, hs[i].parent)
    /\ \A k \in 1..Len(hs[i].daughters) : Live(hs, hs[i].daughters[k])

C9_OrphanConsistency ==
  /\ [](LinksConsistent(hyacinths))
  /\ [][\A dead \in IdsOf(hyacinths) \ IdsOf(hyacinths') :
          lastOp' = "hyacinthTick" =>
            \A i \in 1..Len(hyacinths) :
              hyacinths[i].parent = dead =>
                /\ Live(hyacinths', hyacinths[i].id)
                /\ ById(hyacinths', hyacinths[i].id).parent = NoParent]_vars

\* a daughter (only plant 1 is a founder before the first birth) has lost
\* its parent and lives on as an orphan
C9_Witness ==
  \E i \in 1..Len(hyacinths) :
    /\ hyacinths[i].id = 2
    /\ hyacinths[i].parent = NoParent
    /\ ~Live(hyacinths, 1)

\* ------------------------------------------------------------------ C10
\* C10: the death rate is non-increasing in the dissolved oxygen: for all
\* d1 <= d2 in [0, 7], deathRate(d1) >= deathRate(d2).
C10_DeathRateMonotone ==
  (lastOp = "deathRate" /\ probeDO[1] <= probeDO[2]) => probeRate[1] >= probeRate[2]

\* ------------------------------------------------------------------ C11
\* C11: the piecewise-linear death rate is non-increasing in the dissolved
\* oxygen, is 1.0 up to 1.0 mg/L, 0.8 at 1.5, 0.5 at 2.0, 0.2 at 3.0, 0.05 at
\* 4.0, 0.01 at 5.0 and 0 from 6.0 on, and has no jump: over one grid step
\* of 0.05 mg/L it falls by at most 0.03, the steepest band's slope.
LinearEdges ==
  <<<<1000, 2000000000>>, <<1500, 1600000000>>, <<2000, 1000000000>>,
    <<3000, 400000000>>, <<4000, 100000000>>, <<5000, 20000000>>, <<6000, 0>>>>

C11_LinearCurve ==
  lastOp = "deathRateLinear" =>
    /\ probeDO[1] <= probeDO[2] => probeRate[1] >= probeRate[2]
    /\ \A k \in 1..Len(LinearEdges) :
         probeDO[1] = LinearEdges[k][1] => probeRate[1] = LinearEdges[k][2]
    /\ probeDO[1] <= 1000 => probeRate[1] = DeathScale
    /\ probeDO[1] >= 6000 => probeRate[1] = 0
    /\ probeDO[2] = probeDO[1] + 50 => probeRate[1] - probeRate[2] <= 60000000

\* the curve evaluated at the two ends of the 1.5-2.0 band
C11_Witness ==
  /\ lastOp = "deathRateLinear"
  /\ probeDO = <<1500, 2000>>
  /\ probeRate = <<1600000000, 1000000000>>

\* ------------------------------------------------------------------ C12
\* C12: at dissolved oxygen 0 a fish whose 1-second death check fires is
\* removed whatever the roll; at 6.0 mg/L or more no fish tick removes a
\* fish.  The piecewise-linear curve of the earlier sprite decides the same
\* way at both ends.
DeathCheckFires(f) ==
  spriteRefs.death[f.id] + frame.dt * simulationState.speedMultiplier >= CadenceUnit

C12_OxygenExtremes ==
  /\ [](\A roll \in 1..100 :
          /\ RollHits(roll, deathRateLinear(0), DeathScale)
          /\ \A d \in {6000, 6500, 7000} : ~RollHits(roll, deathRateLinear(d), DeathScale))
  /\ [][(lastOp' = "fishTick" /\ Running) =>
          LET f == rendered.fish[frame.i]
          IN /\ (DeathCheckFires(f) /\ riverInstance.currentDissolvedOxygen = 0)
                  => ~Live(fish', f.id)
             /\ riverInstance.currentDissolvedOxygen >= 6000
                  => IdsOf(fish) \subseteq IdsOf(fish')]_vars

\* a fish has been removed by its death check in a river without oxygen
C12_Witness ==
  /\ lastOp = "fishTick"
  /\ wasRunning
  /\ riverInstance.currentDissolvedOxygen = 0
  /\ rendered.fish # <<>>
  /\ fish = <<>>

Separated(agents, minDistance) ==
  \A i \in 1..Len(agents) :
    ~Overlaps(SubSeq(agents, 1, i - 1), agents[i][1], agents[i][2], minDistance)

C16_SetupSeparates ==
  (placement.pc = "idle" /\ placement.setups > 0)
  => /\ Separated(placement.hyacinths, MinDistance)
     /\ Separated(placement.fish, MinDistance)

\* ------------------------------------------------------------------ C17
\* C17: whatever numbers the river setters are called with, and after any
\* consumption, the stored nutrient stock and pollution level are not
\* negative.
C17_StocksNonNegative ==
  /\ riverInstance.totalNutrients >= 0
  /\ riverInstance.pollutionLevel >= 0

\* ------------------------------------------------------------------ C18
\* C18: both oxygen fields of the river lie within [0, 7] mg/L, and right
\* after a recomputation currentDissolvedOxygen is max(0, initial - sum of the
\* plants' impacts - pollutionLevel / 100 * 6.0) for the plants and the
\* pollution level of that render.
Recomputed == lastOp \in {"render", "setNutrients", "setPollution", "setSunlight"}

C18_OxygenDerived ==
  /\ riverInstance.currentDissolvedOxygen >= 0
  /\ riverInstance.currentDissolvedOxygen <= 7000
  /\ riverInstance.initialDissolvedOxygen >= 0
  /\ riverInstance.initialDissolvedOxygen <= 7000
  /\ Recomputed =>
       riverInstance.currentDissolvedOxygen =
         Max(0, riverInstance.initialDissolvedOxygen
                  - SumOver(rendered.hyacinths, "dissolvedOxygenImpact")
                  - (riverInstance.pollutionLevel * 6) \div 10)

\* ------------------------------------------------------------------ C19
\* C19: from one recomputation of the dissolved oxygen to the next, with the
\* initial oxygen the same, the result does not rise when the plants' total
\* impact and the pollution level have not fallen (a plant added, pollution
\* raised), and does not fall when they have not risen (a plant removed,
\* pollution lowered).
Impact(props) == SumOver(props.hyacinths, "dissolvedOxygenImpact")

C19_OxygenMonotone ==
  [][(Recomputed' /\ rendered' # rendered
      /\ rendered'.river.initialDissolvedOxygen = rendered.river.initialDissolvedOxygen) =>
       /\ (/\ Impact(rendered') >= Impact(rendered)
           /\ rendered'.river.pollutionLevel >= rendered.river.pollutionLevel)
          => rendered'.river.currentDissolvedOxygen <= rendered.river.currentDissolvedOxygen
       /\ (/\ Impact(rendered') <= Impact(rendered)
           /\ rendered'.river.pollutionLevel <= rendered.river.pollutionLevel)
          => rendered'.river.currentDissolvedOxygen >= rendered.river.currentDissolvedOxygen]_vars

\* the oxygen recomputed with two plants and pollution 50 % lies below the
\* initial 6.0 mg/L by both impacts
C19_Witness ==
  /\ Recomputed
  /\ Len(rendered.hyacinths) = 2
  /\ rendered.river.pollutionLevel = 5000
  /\ rendered.river.currentDissolvedOxygen = 6000 - 100 - 3000
  /\ riverInstance.currentDissolvedOxygen = rendered.river.currentDissolvedOxygen

\* ------------------------------------------------------------------ C20
\* C20: from the manager's callback to the last fish callback of a frame the
\* props of the sprites, the plant list among them, stay those the frame
\* started with; what the callbacks emit goes to the population state only,
\* and a growing plant's new biomass is computed from its record in that list.
GrowthFires(h) ==
  spriteRefs.growth[h.id] + frame.dt * simulationState.speedMultiplier >= CadenceUnit

C21_WholeTick ==
  [][/\ frame.pc # "idle" =>
          isSimulationRunning(simulationState') = isSimulationRunning(simulationState)
     /\ lastOp' = "managerTick" =>
          /\ managerGate(simulationState) = Running
          /\ IF Running
             THEN simulationState'.tickCount = simulationState.tickCount + 1
             ELSE UNCHANGED <<simulationState, riverInstance, managerRef>>
     /\ lastOp' = "hyacinthTick" => hyacinthGate(simulationState) = wasRunning
     /\ lastOp' = "fishTick" => fishGate(simulationState) = wasRunning]_vars

\* a frame with a plant and a fish has run to its end: the second running
\* frame, the first after a reset of the clock
C21_Witness ==
  /\ frame.pc = "idle"
  /\ lastOp = "fishTick"
  /\ wasRunning
  /\ rendered.hyacinths # <<>>
  /\ simulationState.tickCount = 1
  /\ frameCount = 2

\* ------------------------------------------------------------------ C22
\* C22: a plant tick that commits a reproduction, the parent surviving the
\* tick, appends exactly one plant: fresh id, INIT_BIOMASS, the parent's id
\* as parent, no daughters, nothing gained.  The parent gets the new id at the
\* end of its daughters, one more currentDaughters and biomassGained 0, the
\* growth of the same tick notwithstanding; every other plant stays as it was.
C22_ReproductionCommit ==
  [][(lastOp' = "hyacinthTick" /\ nextId' = nextId + 1
      /\ Live(hyacinths', rendered.hyacinths[frame.i].id)) =>
       LET parentId == rendered.hyacinths[frame.i].id
           before == ById(hyacinths, parentId)
           after == ById(hyacinths', parentId)
           daughter == hyacinths'[Len(hyacinths')]
       IN /\ Len(hyacinths') = Len(hyacinths) + 1
          /\ daughter.id = nextId
          /\ ~Live(hyacinths, daughter.id)
          /\ daughter.biomass = INIT_BIOMASS
          /\ daughter.parent = parentId
          /\ daughter.daughters = <<>>
          /\ daughter.currentDaughters = 0
          /\ daughter.biomassGained = 0
          /\ after.daughters = Append(before.daughters, daughter.id)
          /\ after.currentDaughters = before.currentDaughters + 1
          /\ after.biomassGained = 0
          /\ \A i \in 1..Len(hyacinths) :
               hyacinths[i].id # parentId => hyacinths'[i] = hyacinths[i]]_vars

\* the founder has just had its first daughter
C22_Witness ==
  /\ lastOp = "hyacinthTick"
  /\ Len(hyacinths) = 2
  /\ hyacinths[1].id = 1
  /\ hyacinths[1].daughters = <<2>>
  /\ hyacinths[1].currentDaughters = 1
  /\ hyacinths[1].biomassGained = 0
  /\ hyacinths[1].biomass > INIT_BIOMASS
  /\ hyacinths[2].parent = 1
  /\ hyacinths[2].biomass = INIT_BIOMASS

\* ------------------------------------------------------------------ C23
\* C23: when none of the 8 candidate positions around a plant is valid, its
\* growth tick adds no plant, leaves the plant's daughters and
\* currentDaughters as they were and stores the grown biomassGained, not 0.
NoCandidateValid(parent, allHyacinths) ==
  \A k \in 1..8 :
    \E i \in 1..Len(allHyacinths) :
      /\ allHyacinths[i].id # parent.id
      /\ (Candidate(parent, k)[1] - allHyacinths[i].x)
           * (Candidate(parent, k)[1] - allHyacinths[i].x)
         + (Candidate(parent, k)[2] - allHyacinths[i].y)
           * (Candidate(parent, k)[2] - allHyacinths[i].y)
         < HyacinthMinDistance * HyacinthMinDistance

C23_NoSpaceNoBirth ==
  [][(lastOp' = "growthTick"
      /\ NoCandidateValid(sweep.allHyacinths[sweep.i], sweep.allHyacinths)) =>
       LET h == sweep.allHyacinths[sweep.i]
           before == ById(sweep.current, h.id)
           after == ById(sweep'.current, h.id)
       IN /\ IdsOf(sweep'.current) = IdsOf(sweep.current)
          /\ sweep'.nextId = sweep.nextId
          /\ after.daughters = before.daughters
          /\ after.currentDaughters = before.currentDaughters
          /\ after.biomassGained =
               h.biomassGained
                 + calculateGrowthRate(rendered.river.temperature,
                                       rendered.river.sunlight, h.nur)]_vars

\* the hemmed-in plant has gone through its growth tick, above the lower
\* threshold and without a daughter
C23_Witness ==
  /\ lastOp = "growthTick"
  /\ sweep.i = 2
  /\ Len(sweep.allHyacinths) = 4
  /\ sweep.current[1].biomassGained = 64000
  /\ sweep.current[1].currentDaughters = 0
  /\ Len(sweep.current) = 4

\* ------------------------------------------------------------------ C24
\* C24: a daughter is spawned at the first of its parent's 8 candidates that
\* is valid against the plant list of the props, and when the spawn is
\* committed every other plant of the population except the parent is at
\* least the minimum distance away, daughters of other parents born in the
\* same sweep included.
C24_DaughterSeparated ==
  [][(lastOp' = "growthTick" /\ sweep'.nextId = sweep.nextId + 1) =>
       LET h == sweep.allHyacinths[sweep.i]
           daughter == sweep'.current[Len(sweep'.current)]
           position == <<daughter.x, daughter.y>>
       IN /\ \E k \in 1..8 :
               /\ position = Candidate(h, k)
               /\ validPosition(position, h, sweep.allHyacinths)
               /\ \A j \in 1..(k - 1) :
                    ~validPosition(Candidate(h, j), h, sweep.allHyacinths)
          /\ validPosition(position, h, sweep.current)]_vars

\* ------------------------------------------------------------------ C25
\* C25: a fish tick that removes its fish does nothing else: no fish is
\* born, the reproduction timer of the sprite is not touched, and the
\* population is the one before without the dead fish.
C25_DeathEndsTick ==
  [][(lastOp' = "fishTick"
      /\ Live(fish, rendered.fish[frame.i].id)
      /\ ~Live(fish', rendered.fish[frame.i].id)) =>
       /\ nextId' = nextId
       /\ fish' = handleFishDeath(fish, rendered.fish[frame.i].id)
       /\ Len(fish') = Len(fish) - 1
       /\ spriteRefs'.repro = spriteRefs.repro]_vars

\* a fish has died in a tick in which its reproduction check was due as
\* well, next to a second fish
C25_Witness ==
  /\ lastOp = "fishTick"
  /\ wasRunning
  /\ Len(rendered.fish) = 2
  /\ Len(fish) = 1
  /\ nextId = 3
  /\ \E i \in 1..2 : ~Live(fish, rendered.fish[i].id)

\* C26: a fish tick that commits a reproduction adds exactly one fish, with a
\* fresh id and the reproduction rate of its parent, and leaves every fish
\* that was there unchanged; when the reproduction check of a live fish is
\* reached and due, a fish of rate 0 does not reproduce and a fish of rate 1
\* does.
C26_FishReproductionCommit ==
  [][LET parent == rendered.fish[frame.i].id
         due == spriteRefs.repro[parent]
                  + frame.dt * simulationState.speedMultiplier >= CadenceUnit
         reached == spriteRefs'.death[parent] < CadenceUnit
     IN /\ (lastOp' = "fishTick" /\ nextId' = nextId + 1) =>
             /\ Len(fish') = Len(fish) + 1
             /\ \A i \in 1..Len(fish) : fish'[i] = fish[i]
             /\ fish'[Len(fish')].id = nextId
             /\ ~Live(fish, nextId)
             /\ Live(fish, parent) =>
                  fish'[Len(fish')].reproduceRate = ById(fish, parent).reproduceRate
        /\ (lastOp' = "fishTick" /\ wasRunning' /\ due /\ reached
              /\ Live(fish, parent)) =>
             /\ ById(fish, parent).reproduceRate = 0 => nextId' = nextId
             /\ ById(fish, parent).reproduceRate = 100 => nextId' = nextId + 1]_vars

\* C30: when React commits a batch in which a bulk update of the fish
\* reproduction rate to r was requested, every fish of the committed list has
\* the rate r, the fish whose spawn was requested in that batch included; and
\* with no update waiting, a newborn has the rate of its live parent.
C30_BulkRateReachesAll ==
  [][/\ (lastOp' = "render" /\ pendingRate # NoRate) =>
          \A i \in 1..Len(rendered'.fish) :
            rendered'.fish[i].reproduceRate = pendingRate
     /\ (lastOp' = "fishTick" /\ nextId' = nextId + 1 /\ pendingRate = NoRate
           /\ Live(fish, rendered.fish[frame.i].id)) =>
          fish'[Len(fish')].reproduceRate
            = ById(fish, rendered.fish[frame.i].id).reproduceRate]_vars

\* C28: after every movement step of a fish its speed is at most maxSpeed and
\* its position lies inside the world, whatever the frame delta, the speed
\* multiplier and the flow rate of the step were.
C28_FishStaysInside ==
  swim.phase = "swimming" =>
    /\ Abs(swim.vx) <= maxSpeed
    /\ 0 <= swim.x /\ swim.x <= swim.width

\* C27: touchingHyacinth has no effect on survival or reproduction: two runs
\* of a fish that differ only in that flag die in the same ticks, reproduce in
\* the same ticks and keep the same timers.
C27_ShelterHasNoEffect ==
  twins.phase = "running" =>
    /\ twins.a.touchingHyacinth # twins.b.touchingHyacinth
    /\ twins.outA = twins.outB
    /\ twins.refsA = twins.refsB

\* C27 witness: in their second tick the sheltered fish and the unsheltered
\* one, both of reproduction rate 1, die together at 4.8 mg/L.
C27_Witness ==
  /\ twins.phase = "running" /\ twins.steps = 2
  /\ twins.a.touchingHyacinth /\ ~twins.b.touchingHyacinth
  /\ twins.outA.died /\ twins.outB.died
  /\ twins.river.currentDissolvedOxygen = 4800
  /\ twins.a.reproduceRate = 100

\* C29: a running frame applies the consumption once for every boundary of a
\* simulated second that it crosses, however the elapsed time is split into
\* frames and whatever the speed is; an application takes the plants' summed
\* nur off a positive nutrient stock and their summed pol off a positive
\* pollution level, both floored at 0.
C29_OncePerSecond ==
  [][(lastOp' = "managerTick" /\ wasRunning') =>
       LET scaled == simulationState'.globalTime - simulationState.globalTime
           crossed == (simulationState'.globalTime \div CadenceUnit)
                        - (simulationState.globalTime \div CadenceUnit)
           applied == managerRef + scaled >= CadenceUnit
           hs == rendered.hyacinths
       IN /\ crossed = IF applied THEN 1 ELSE 0
          /\ applied =>
               /\ riverInstance'.totalNutrients =
                    IF riverInstance.totalNutrients > 0
                    THEN Max(0, riverInstance.totalNutrients - SumOver(hs, "nur"))
                    ELSE riverInstance.totalNutrients
               /\ riverInstance'.pollutionLevel =
                    IF riverInstance.pollutionLevel > 0
                    THEN Max(0, riverInstance.pollutionLevel - SumOver(hs, "pol"))
                    ELSE riverInstance.pollutionLevel
          /\ ~applied => riverInstance' = riverInstance]_vars

\* ------------------------------------------------------------------ C31
\* C31: the ids of the live plants are pairwise distinct and so are the ids of
\* the live fish, after every add, setup, reproduction and death; and a tick,
\* with its biomass and biomassGained updates, leaves the id of every agent
\* that stays in the population unchanged: the surviving ids keep their
\* places and only ids that were not live are appended.
IdSeq(agents) == [i \in 1..Len(agents) |-> agents[i].id]

Distinct(agents) ==
  \A i, j \in 1..Len(agents) : agents[i].id = agents[j].id => i = j

StableIds(old, new) ==
  LET kept == SelectSeq(IdSeq(old), LAMBDA id : id \in IdsOf(new))
  IN /\ Len(kept) <= Len(new)
     /\ SubSeq(IdSeq(new), 1, Len(kept)) = kept
     /\ \A i \in (Len(kept) + 1)..Len(new) : new[i].id \notin IdsOf(old)

C32_SetupReplacesPopulation ==
  [][lastOp' = "setup" =>
       \E counts \in SetupCounts \cup FishSetupCounts :
         /\ nextId' = nextId + counts[1] + counts[2]
         /\ Len(hyacinths') = counts[1]
         /\ Len(fish') = counts[2]
         /\ \A id \in IdsOf(hyacinths') \cup IdsOf(fish') : id >= nextId]_vars

\* ------------------------------------------------------------------ C33
\* C33: adding a single agent only appends one agent to its population: the
\* agents that were there stay as they were, in their places, none is
\* dropped, brought back or reverted, also when deaths, births or biomass
\* updates of the batch are still waiting for their render.
C33_AddOnlyAppends ==
  [][/\ lastOp' = "addHyacinth" =>
          /\ Len(hyacinths') = Len(hyacinths) + 1
          /\ SubSeq(hyacinths', 1, Len(hyacinths)) = hyacinths
          /\ fish' = fish
     /\ lastOp' = "addFish" =>
          /\ Len(fish') = Len(fish) + 1
          /\ SubSeq(fish', 1, Len(fish)) = fish
          /\ hyacinths' = hyacinths]_vars

\* C34: over its lifetime a plant produces at most futureDaughters daughters:
\* the reproduction commits counted for a live plant never exceed its
\* futureDaughters, also when some of its daughters died in between.
C34_LifetimeBudget ==
  \A i \in 1..Len(hyacinths) :
    hyacinths[i].id \in DOMAIN births =>
      births[hyacinths[i].id] <= hyacinths[i].futureDaughters

\* C35: in every reachable state and for every plant, currentDaughters is
\* the number of ids in its daughters list, every id in the list is a live
\* plant whose parent field is this plant's id, and no id is listed twice.
DaughtersExact(hs) ==
  \A i \in 1..Len(hs) :
    /\ hs[i].currentDaughters = Len(hs[i].daughters)
    /\ \A k \in 1..Len(hs[i].daughters) :
         /\ Live(hs, hs[i].daughters[k])
         /\ ById(hs, hs[i].daughters[k]).parent = hs[i].id
         /\ \A l \in 1..Len(hs[i].daughters) :
              hs[i].daughters[k] = hs[i].daughters[l] => k = l

C35_DaughtersExact == DaughtersExact(hyacinths)

\* a parent has had a daughter and has lost her: the death of the daughter
\* has emptied the parent's list and taken its count back to 0
C35_Witness ==
  /\ lastOp = "hyacinthTick"
  /\ \E i \in 1..Len(hyacinths) :
       /\ hyacinths[i].id \in DOMAIN births
       /\ births[hyacinths[i].id] = 1
       /\ hyacinths[i].currentDaughters = 0
       /\ hyacinths[i].daughters = <<>>

C37_GoneAgentCommitsNothing ==
  [][/\ (lastOp' = "hyacinthTick" /\ ~Live(hyacinths, rendered.hyacinths[frame.i].id))
          => hyacinths' = hyacinths /\ fish' = fish
     /\ (lastOp' = "fishTick" /\ ~HasId(fish, rendered.fish[frame.i].id))
          => hyacinths' = hyacinths /\ fish' = fish]_vars

\* C38: in the variant with an id counter, two plant reproductions, or an
\* add and a reproduction, handled before the counter is rendered again
\* still get distinct ids, and both new plants are in the array after the
\* commit: every handled request adds one plant and the ids stay pairwise
\* distinct.
CounterOps == {"counterAdd", "counterReproduction"}

C38_CounterIdsDistinct ==
  [][lastOp' \in CounterOps =>
       /\ Len(counterScene'.hyacinths) = Len(counterScene.hyacinths) + 1
       /\ Distinct(counterScene'.hyacinths)]_vars

\* C39: updateRiver changes only the fields named in its argument, resetRiver
\* restores every field to its default, and createRiver and getRiver return
\* the singleton as it is, updates included, not fresh defaults.
DissolvedOxygenFields == {"initialDissolvedOxygen", "currentDissolvedOxygen"}

C39_RiverSingleton ==
  [][LET before == IF riverModule.riverInstance = <<>> THEN riverDefaults
                   ELSE riverModule.riverInstance[1]
         after == riverModule'.riverInstance[1]
         updates == riverModule'.updates
     IN /\ riverModule'.returned = riverModule'.riverInstance
        /\ lastOp' = "updateRiver" =>
             \A f \in DOMAIN riverDefaults :
               /\ f \notin DOMAIN updates => after[f] = before[f]
               /\ f \in DOMAIN updates \ DissolvedOxygenFields => after[f] = updates[f]
        /\ lastOp' = "resetRiver" => after = riverDefaults
        /\ lastOp' \in {"createRiver", "getRiver"} => after = before]_vars

\* getRiver after an update returns a river that is not the default one
C39_Witness ==
  /\ lastOp = "getRiver"
  /\ riverModule.returned # <<riverDefaults>>
  /\ riverModule.returned[1].totalNutrients = 0

\* C40: the unsubscribe function returned by addStateChangeListener removes
\* exactly that one registration: every other registration, a second
\* registration of the same function included, stays in the array and keeps
\* being notified, and calling it again changes nothing.
RemoveOne(listeners, l) ==
  IF \E i \in 1..Len(listeners) : listeners[i] = l
  THEN LET first == CHOOSE i \in 1..Len(listeners) :
                      listeners[i] = l /\ \A j \in 1..(i - 1) : listeners[j] # l
       IN SubSeq(listeners, 1, first - 1)
            \o SubSeq(listeners, first + 1, Len(listeners))
  ELSE listeners

C40_UnsubscribeRemovesOne ==
  [][lastOp' = "unsubscribe" =>
       \E l \in ListenerIds :
         stateChangeListeners' = RemoveOne(stateChangeListeners, l)]_vars
====
